---- MODULE Spec2Model ----
(***************************************************************************)
(* Credential lifecycle of tools-go-token: the OTP, password-reset and     *)
(* refresh-token services over a Redis-like key/value store with TTLs.     *)
(*                                                                         *)
(* Strings the code inspects (OTP codes, tokens, the attempts counter) are *)
(* sequences of one-character strings; a Redis key "a:b:c" is the sequence *)
(* of its colon-separated segments (no generated segment holds a colon).   *)
(* Every handler is a function from (store, inputs, failing store calls)   *)
(* to (store, results); F is the set of positions, counted from 1 in the   *)
(* order the handler issues them, of the store calls that return an error. *)
(* A store call that returns an error has no effect on the store.          *)
(***************************************************************************)
EXTENDS Integers, Sequences, FiniteSets, TLC

VARIABLES
    db,      \* the store: key -> [val, ttl], defined on the live keys only
    last,    \* the last call and what it returned
    otpHist, \* per OTP subject, what the calls on it returned (history)
    prHist,  \* per password-reset subject, what the calls on it returned
    rtHist,  \* per refresh subject, the tokens issued and the ones revoked
    procs,   \* per caller running a call store call by store call, its position
    tally,   \* what the callers' verifies did with the code of the last create
    expired, \* the keys that expired and were not written since, with the
             \* values they held
    clock,   \* the time, in seconds
    accessTokens \* the access token issued last, with its principal and the
             \* time of its creation

vars == <<db, last, otpHist, prHist, rtHist, procs, tally, expired, clock,
          accessTokens>>

----------------------------------------------------------------------------
(* Bounds of the model *)

\* the random source (crypto/rand) returns a number in 0..MaxRand
MaxRand == 1
\* the configured TTLs (OTPTTL, PasswordResetTTL, RefreshTokenTTL), in clock ticks
OTPTTL == 2
PasswordResetTTL == 2
RefreshTokenTTL == 2

----------------------------------------------------------------------------
(* Program constants *)

maxAttempts == 5
otpLength == 6
passwordResetTokenMaxLength == 32
refreshTokenMaxLength == 255

redisStoreNameOTP == "otp"
redisStoreNameOTPAttempts == <<"otp", "attempts">>
redisStoreNamePasswordReset == "password_reset"
redisStoreNameRefreshToken == "refresh"

\* error values; Nil is Go's nil error, RedisNil is redis.Nil (key absent)
Nil == "nil"
RedisNil == "redis: nil"
StoreErr == "store error"
NoVal == <<"none">>

----------------------------------------------------------------------------
(* Strings and conversions *)

Digits == <<"0", "1", "2", "3", "4", "5", "6", "7", "8", "9">>
DigitSet == {Digits[i] : i \in 1..10}
DigitVal(c) == CHOOSE v \in 0..9 : Digits[v + 1] = c

\* strconv.Itoa / %d of a non-negative integer
RECURSIVE Itoa(_)
Itoa(n) == IF n < 10 THEN <<Digits[n + 1]>>
           ELSE Itoa(n \div 10) \o <<Digits[(n % 10) + 1]>>

\* strconv.Atoi of an unsigned decimal string: [n, err]
RECURSIVE AtoiVal(_)
AtoiVal(s) == IF s = <<>> THEN 0
              ELSE 10 * AtoiVal(SubSeq(s, 1, Len(s) - 1)) + DigitVal(s[Len(s)])
Atoi(s) == IF s = <<>> \/ \E i \in 1..Len(s) : s[i] \notin DigitSet
           THEN [n |-> 0, err |-> "invalid syntax"]
           ELSE [n |-> AtoiVal(s), err |-> Nil]

\* fmt.Sprintf("%06d", n): zero-padded to six characters
RECURSIVE PadLeft(_, _)
PadLeft(s, w) == IF Len(s) >= w THEN s ELSE PadLeft(<<"0">> \o s, w)
GenerateOTP(n) == PadLeft(Itoa(n), otpLength)

\* validation.OTPValidation
OTPHasLength(otp) == Len(otp) = otpLength
OTPOnlyContainsDigits(otp) ==
    Len(otp) = otpLength /\ \A i \in 1..Len(otp) : otp[i] \in DigitSet
ISOTPValid(otp) == OTPHasLength(otp) /\ OTPOnlyContainsDigits(otp)

\* lib.PasswordHash: the digest is opaque; CheckHash accepts exactly the
\* password the digest was made of
Hash(password) == <<"bcrypt", password>>
CheckHash(password, hash) ==
    IF Len(password) = 0 \/ Len(hash) = 0 THEN FALSE
    ELSE hash = <<"bcrypt", password>>

----------------------------------------------------------------------------
(* The store (go-redis commands) *)

\* ttl is the number of ticks left, 0 for a key without expiry
Entry(v, ttl) == [val |-> v, ttl |-> ttl]
NoExpiry(e) == e.ttl = 0

RedisSet(d, key, v, ttl) ==
    [k \in DOMAIN d \cup {key} |-> IF k = key THEN Entry(v, ttl) ELSE d[k]]

RedisDel(d, key) == [k \in DOMAIN d \ {key} |-> d[k]]

RedisDelAll(d, keys) == [k \in DOMAIN d \ keys |-> d[k]]

RedisExists(d, key) == IF key \in DOMAIN d THEN 1 ELSE 0

\* GET: the value, or the redis.Nil error for an absent key
RedisGet(d, key, fail) ==
    IF fail THEN [val |-> <<>>, err |-> StoreErr]
    ELSE IF key \notin DOMAIN d THEN [val |-> <<>>, err |-> RedisNil]
    ELSE [val |-> d[key].val, err |-> Nil]

\* INCR: an absent key counts as 0 and is created without expiry; an
\* existing key keeps its expiry
RedisIncr(d, key) ==
    IF key \notin DOMAIN d THEN RedisSet(d, key, Itoa(1), 0)
    ELSE [d EXCEPT ![key].val = Itoa(Atoi(@).n + 1)]

\* SCAN MATCH "<prefix>:*": the keys that extend the prefix by a segment or more
IsPrefix(p, k) == Len(k) > Len(p) /\ SubSeq(k, 1, Len(p)) = p
RedisScan(d, prefix) == {k \in DOMAIN d : IsPrefix(prefix, k)}

\* one clock tick: every expiring key comes one tick closer to its expiry and
\* the keys that reach it are removed
Expiring(d) == {k \in DOMAIN d : d[k].ttl = 1}
RedisTick(d) ==
    [k \in DOMAIN d \ Expiring(d) |->
        IF NoExpiry(d[k]) THEN d[k] ELSE Entry(d[k].val, d[k].ttl - 1)]

\* n clock ticks
RECURSIVE RedisTickN(_, _)
RedisTickN(d, n) == IF n = 0 THEN d ELSE RedisTickN(RedisTick(d), n - 1)

----------------------------------------------------------------------------
(* OTP service *)

otpKey(userID) == <<redisStoreNameOTP, Itoa(userID)>>
otpAttemptsKey(userID) == redisStoreNameOTPAttempts \o <<Itoa(userID)>>

Res(d, ret, val, err) == [db |-> d, ret |-> ret, val |-> val, err |-> err]

\* getAttempts; its GET is store call number n
getAttempts(d, userID, F, n) ==
    IF userID <= 0 THEN [val |-> <<>>, err |-> "invalid user id"]
    ELSE LET g == RedisGet(d, otpAttemptsKey(userID), n \in F)
         IN  IF g.err = RedisNil THEN [val |-> <<>>, err |-> Nil]
             ELSE IF g.err # Nil THEN [val |-> <<>>, err |-> g.err]
             ELSE [val |-> g.val, err |-> Nil]

\* incrementAttempts that increments without looking for the key: a new
\* counter gets no expiry
incrementAttempts_IncrOnly(d, userID, F, n) ==
    IF userID <= 0 THEN [db |-> d, n |-> 0, err |-> "invalid user id"]
    ELSE IF n \in F THEN [db |-> d, n |-> 0, err |-> StoreErr]
    ELSE LET d2 == RedisIncr(d, otpAttemptsKey(userID))
         IN  [db |-> d2, n |-> Atoi(d2[otpAttemptsKey(userID)].val).n,
              err |-> Nil]

\* incrementAttempts; EXISTS is store call n, SET or INCR is call n + 1
incrementAttempts(d, userID, F, n) ==
    IF userID <= 0 THEN [db |-> d, n |-> 0, err |-> "invalid user id"]
    ELSE LET key == otpAttemptsKey(userID)
         IN  IF n \in F THEN [db |-> d, n |-> 0, err |-> StoreErr]
             ELSE IF RedisExists(d, key) = 0
             THEN IF (n + 1) \in F THEN [db |-> d, n |-> 0, err |-> StoreErr]
                  ELSE [db |-> RedisSet(d, key, Itoa(1), OTPTTL),
                        n |-> 1, err |-> Nil]
             ELSE IF (n + 1) \in F THEN [db |-> d, n |-> 0, err |-> StoreErr]
                  ELSE LET d2 == RedisIncr(d, key)
                       IN  [db |-> d2, n |-> Atoi(d2[key].val).n, err |-> Nil]

\* revokeAttempts; its DEL is store call n
revokeAttempts(d, userID, F, n) ==
    IF userID <= 0 THEN [db |-> d, err |-> "invalid user id"]
    ELSE IF n \in F THEN [db |-> d, err |-> StoreErr]
    ELSE [db |-> RedisDel(d, otpAttemptsKey(userID)), err |-> Nil]

\* mutant: the counter is left as it is
resetAttempts_Skipped(d, userID, F, n) == [db |-> d, err |-> Nil]

\* mutant: the counter is written without expiry
resetAttempts_NoExpiry(d, userID, F, n) ==
    IF userID <= 0 THEN [db |-> d, err |-> "invalid user id"]
    ELSE IF n \in F THEN [db |-> d, err |-> StoreErr]
    ELSE [db |-> RedisSet(d, otpAttemptsKey(userID), Itoa(0), 0),
          err |-> Nil]

\* resetAttempts; its SET is store call n
resetAttempts(d, userID, F, n) ==
    IF userID <= 0 THEN [db |-> d, err |-> "invalid user id"]
    ELSE IF n \in F THEN [db |-> d, err |-> StoreErr]
    ELSE [db |-> RedisSet(d, otpAttemptsKey(userID), Itoa(0), OTPTTL),
          err |-> Nil]

\* RevokeOTP that leaves the attempts counter in place
RevokeOTPRun_KeepsAttempts(d, userID, F, n) ==
    IF userID <= 0 THEN [db |-> d, err |-> "invalid user id"]
    ELSE IF n \in F THEN [db |-> d, err |-> StoreErr]
    ELSE [db |-> RedisDel(d, otpKey(userID)), err |-> Nil]

\* mutant: the code key is not deleted
RevokeOTPRun_KeepsCode(d, userID, F, n) ==
    IF userID <= 0 THEN [db |-> d, err |-> "invalid user id"]
    ELSE revokeAttempts(d, userID, F, n + 1)

\* RevokeOTP; DEL of the code is store call n, DEL of the counter call n + 1
RevokeOTPRun(d, userID, F, n) ==
    IF userID <= 0 THEN [db |-> d, err |-> "invalid user id"]
    ELSE IF n \in F THEN [db |-> d, err |-> StoreErr]
    ELSE revokeAttempts(RedisDel(d, otpKey(userID)), userID, F, n + 1)

\* mutant: an existing code is kept (SET only if the key is absent)
CreateOTPRun_KeepsExisting(d, userID, rnd, F) ==
    IF userID <= 0 THEN Res(d, FALSE, NoVal, "invalid user id")
    ELSE LET key == otpKey(userID)
             otp == GenerateOTP(rnd)
             d1 == IF key \in DOMAIN d THEN d
                   ELSE RedisSet(d, key, Hash(otp), OTPTTL)
             r == resetAttempts(d1, userID, F, 2)
         IN  Res(r.db, FALSE, otp, Nil)

\* CreateOTP; rnd is the number the random source returns. Store calls:
\* 1 SET of the hash, 2 SET of the counter, 3 the rollback DEL
CreateOTPRun(d, userID, rnd, F) ==
    IF userID <= 0 THEN Res(d, FALSE, NoVal, "invalid user id")
    ELSE LET key == otpKey(userID)
             otp == GenerateOTP(rnd)
             hash == Hash(otp)
         IN  IF 1 \in F THEN Res(d, FALSE, NoVal, StoreErr)
             ELSE LET d1 == RedisSet(d, key, hash, OTPTTL)
                      r == resetAttempts(d1, userID, F, 2)
                  IN  IF r.err # Nil
                      THEN Res(IF 3 \in F THEN d1 ELSE RedisDel(d1, key),
                               FALSE, NoVal, "failed to reset attempts counter")
                      ELSE Res(r.db, FALSE, otp, Nil)

\* mutants: the bound is off by one, either way
RateLimited_Above(attempts) == attempts > maxAttempts
RateLimited_Early(attempts) == attempts + 1 >= maxAttempts

\* the rate-limit test of VerifyOTP
RateLimited(attempts) == attempts >= maxAttempts

\* VerifyOTP that reports an absent code as an error
VerifyOTPRun_RevealsAbsent(d, userID, otp, F) ==
    IF userID <= 0 THEN Res(d, FALSE, NoVal, "invalid user id")
    ELSE IF ~ISOTPValid(otp) THEN Res(d, FALSE, NoVal, "invalid otp")
    ELSE LET a == getAttempts(d, userID, F, 1)
         IN  IF a.err # Nil THEN Res(d, FALSE, NoVal, a.err)
             ELSE IF a.val # <<>> /\ Atoi(a.val).err # Nil
             THEN Res(d, FALSE, NoVal, "corrupted attempts counter")
             ELSE IF a.val # <<>> /\ RateLimited(Atoi(a.val).n)
             THEN Res(d, FALSE, NoVal, "max attempts exceeded")
             ELSE LET g == RedisGet(d, otpKey(userID), 2 \in F)
                  IN  IF g.err = RedisNil
                      THEN Res(incrementAttempts(d, userID, F, 3).db,
                               FALSE, NoVal, "otp not found")
                      ELSE IF g.err # Nil THEN Res(d, FALSE, NoVal, g.err)
                      ELSE IF ~CheckHash(otp, g.val)
                      THEN Res(incrementAttempts(d, userID, F, 3).db,
                               FALSE, NoVal, Nil)
                      ELSE LET r == RevokeOTPRun(d, userID, F, 3)
                           IN  IF r.err # Nil
                               THEN Res(r.db, FALSE, NoVal, r.err)
                               ELSE Res(r.db, TRUE, NoVal, Nil)

\* VerifyOTP that counts the attempt before it checks the shape of the code
VerifyOTPRun_CountsMalformed(d, userID, otp, F) ==
    IF userID <= 0 THEN Res(d, FALSE, NoVal, "invalid user id")
    ELSE IF ~ISOTPValid(otp)
    THEN Res(incrementAttempts(d, userID, F, 3).db, FALSE, NoVal, "invalid otp")
    ELSE LET a == getAttempts(d, userID, F, 1)
         IN  IF a.err # Nil THEN Res(d, FALSE, NoVal, a.err)
             ELSE IF a.val # <<>> /\ Atoi(a.val).err # Nil
             THEN Res(d, FALSE, NoVal, "corrupted attempts counter")
             ELSE IF a.val # <<>> /\ RateLimited(Atoi(a.val).n)
             THEN Res(d, FALSE, NoVal, "max attempts exceeded")
             ELSE LET g == RedisGet(d, otpKey(userID), 2 \in F)
                  IN  IF g.err = RedisNil
                      THEN Res(incrementAttempts(d, userID, F, 3).db,
                               FALSE, NoVal, Nil)
                      ELSE IF g.err # Nil THEN Res(d, FALSE, NoVal, g.err)
                      ELSE IF ~CheckHash(otp, g.val)
                      THEN Res(incrementAttempts(d, userID, F, 3).db,
                               FALSE, NoVal, Nil)
                      ELSE LET r == RevokeOTPRun(d, userID, F, 3)
                           IN  IF r.err # Nil
                               THEN Res(r.db, FALSE, NoVal, r.err)
                               ELSE Res(r.db, TRUE, NoVal, Nil)

\* VerifyOTP that counts the tries it refuses
VerifyOTPRun_CountsLocked(d, userID, otp, F) ==
    IF userID <= 0 THEN Res(d, FALSE, NoVal, "invalid user id")
    ELSE IF ~ISOTPValid(otp) THEN Res(d, FALSE, NoVal, "invalid otp")
    ELSE LET a == getAttempts(d, userID, F, 1)
         IN  IF a.err # Nil THEN Res(d, FALSE, NoVal, a.err)
             ELSE IF a.val # <<>> /\ Atoi(a.val).err # Nil
             THEN Res(d, FALSE, NoVal, "corrupted attempts counter")
             ELSE IF a.val # <<>> /\ RateLimited(Atoi(a.val).n)
             THEN Res(incrementAttempts(d, userID, F, 2).db,
                      FALSE, NoVal, "max attempts exceeded")
             ELSE LET g == RedisGet(d, otpKey(userID), 2 \in F)
                  IN  IF g.err = RedisNil
                      THEN Res(incrementAttempts(d, userID, F, 3).db,
                               FALSE, NoVal, Nil)
                      ELSE IF g.err # Nil THEN Res(d, FALSE, NoVal, g.err)
                      ELSE IF ~CheckHash(otp, g.val)
                      THEN Res(incrementAttempts(d, userID, F, 3).db,
                               FALSE, NoVal, Nil)
                      ELSE LET r == RevokeOTPRun(d, userID, F, 3)
                           IN  IF r.err # Nil
                               THEN Res(r.db, FALSE, NoVal, r.err)
                               ELSE Res(r.db, TRUE, NoVal, Nil)

\* VerifyOTP that returns true whatever becomes of its RevokeOTP
VerifyOTPRun_IgnoresRevoke(d, userID, otp, F) ==
    IF userID <= 0 THEN Res(d, FALSE, NoVal, "invalid user id")
    ELSE IF ~ISOTPValid(otp) THEN Res(d, FALSE, NoVal, "invalid otp")
    ELSE LET a == getAttempts(d, userID, F, 1)
         IN  IF a.err # Nil THEN Res(d, FALSE, NoVal, a.err)
             ELSE IF a.val # <<>> /\ Atoi(a.val).err # Nil
             THEN Res(d, FALSE, NoVal, "corrupted attempts counter")
             ELSE IF a.val # <<>> /\ RateLimited(Atoi(a.val).n)
             THEN Res(d, FALSE, NoVal, "max attempts exceeded")
             ELSE LET g == RedisGet(d, otpKey(userID), 2 \in F)
                  IN  IF g.err = RedisNil
                      THEN Res(incrementAttempts(d, userID, F, 3).db,
                               FALSE, NoVal, Nil)
                      ELSE IF g.err # Nil THEN Res(d, FALSE, NoVal, g.err)
                      ELSE IF ~CheckHash(otp, g.val)
                      THEN Res(incrementAttempts(d, userID, F, 3).db,
                               FALSE, NoVal, Nil)
                      ELSE LET r == RevokeOTPRun(d, userID, F, 3)
                           IN  Res(r.db, TRUE, NoVal, Nil)

\* VerifyOTP that returns the error of its incrementAttempts
VerifyOTPRun_ReportsIncrement(d, userID, otp, F) ==
    IF userID <= 0 THEN Res(d, FALSE, NoVal, "invalid user id")
    ELSE IF ~ISOTPValid(otp) THEN Res(d, FALSE, NoVal, "invalid otp")
    ELSE LET a == getAttempts(d, userID, F, 1)
         IN  IF a.err # Nil THEN Res(d, FALSE, NoVal, a.err)
             ELSE IF a.val # <<>> /\ Atoi(a.val).err # Nil
             THEN Res(d, FALSE, NoVal, "corrupted attempts counter")
             ELSE IF a.val # <<>> /\ RateLimited(Atoi(a.val).n)
             THEN Res(d, FALSE, NoVal, "max attempts exceeded")
             ELSE LET g == RedisGet(d, otpKey(userID), 2 \in F)
                  IN  IF g.err = RedisNil
                      THEN Res(incrementAttempts(d, userID, F, 3).db,
                               FALSE, NoVal,
                               incrementAttempts(d, userID, F, 3).err)
                      ELSE IF g.err # Nil THEN Res(d, FALSE, NoVal, g.err)
                      ELSE IF ~CheckHash(otp, g.val)
                      THEN Res(incrementAttempts(d, userID, F, 3).db,
                               FALSE, NoVal,
                               incrementAttempts(d, userID, F, 3).err)
                      ELSE LET r == RevokeOTPRun(d, userID, F, 3)
                           IN  IF r.err # Nil
                               THEN Res(r.db, FALSE, NoVal, r.err)
                               ELSE Res(r.db, TRUE, NoVal, Nil)

\* VerifyOTP. Store calls: 1 GET of the counter, 2 GET of the hash, then
\* either 3-4 incrementAttempts or 3-4 RevokeOTP
VerifyOTPRun(d, userID, otp, F) ==
    IF userID <= 0 THEN Res(d, FALSE, NoVal, "invalid user id")
    ELSE IF ~ISOTPValid(otp) THEN Res(d, FALSE, NoVal, "invalid otp")
    ELSE LET a == getAttempts(d, userID, F, 1)
         IN  IF a.err # Nil THEN Res(d, FALSE, NoVal, a.err)
             ELSE IF a.val # <<>> /\ Atoi(a.val).err # Nil
             THEN Res(d, FALSE, NoVal, "corrupted attempts counter")
             ELSE IF a.val # <<>> /\ RateLimited(Atoi(a.val).n)
             THEN Res(d, FALSE, NoVal, "max attempts exceeded")
             ELSE LET g == RedisGet(d, otpKey(userID), 2 \in F)
                  IN  IF g.err = RedisNil
                      THEN Res(incrementAttempts(d, userID, F, 3).db,
                               FALSE, NoVal, Nil)
                      ELSE IF g.err # Nil THEN Res(d, FALSE, NoVal, g.err)
                      ELSE IF ~CheckHash(otp, g.val)
                      THEN Res(incrementAttempts(d, userID, F, 3).db,
                               FALSE, NoVal, Nil)
                      ELSE LET r == RevokeOTPRun(d, userID, F, 3)
                           IN  IF r.err # Nil
                               THEN Res(r.db, FALSE, NoVal, r.err)
                               ELSE Res(r.db, TRUE, NoVal, Nil)

\* revokeAllAttempts: SCAN is store call n, a failing DEL of the loop is call
\* n + 1; part holds the keys the loop deleted before that DEL failed
revokeAllAttempts(d, F, n, part) ==
    LET keys == IF n \in F THEN {} ELSE RedisScan(d, redisStoreNameOTPAttempts)
    IN  IF keys # {} /\ (n + 1) \in F
        THEN [db |-> RedisDelAll(d, keys \cap part),
              err |-> "failed to delete otp attempt key"]
        ELSE [db |-> RedisDelAll(d, keys),
              err |-> IF n \in F THEN StoreErr ELSE Nil]

\* RevokeAllOTPs that deletes the codes and leaves the attempts counters
RevokeAllOTPsRun_KeepsAttempts(d, F, part) ==
    LET keys == IF 1 \in F THEN {} ELSE RedisScan(d, <<redisStoreNameOTP>>)
        codes == {k \in keys : ~IsPrefix(redisStoreNameOTPAttempts, k)}
    IN  IF keys # {} /\ 2 \in F
        THEN [db |-> RedisDelAll(d, codes \cap part),
              err |-> "failed to delete otp key"]
        ELSE [db |-> RedisDelAll(d, codes),
              err |-> IF 1 \in F THEN StoreErr ELSE Nil]

\* RevokeAllOTPs: SCAN "otp:*" is store call 1, a failing DEL of its loop is
\* call 2, then revokeAllAttempts (calls 3 and 4); the error of the first
\* scan is returned last
RevokeAllOTPsRun(d, F, part) ==
    LET keys == IF 1 \in F THEN {} ELSE RedisScan(d, <<redisStoreNameOTP>>)
    IN  IF keys # {} /\ 2 \in F
        THEN [db |-> RedisDelAll(d, keys \cap part),
              err |-> "failed to delete otp key"]
        ELSE LET r == revokeAllAttempts(RedisDelAll(d, keys), F, 3, part)
             IN  IF r.err # Nil THEN r
                 ELSE [db |-> r.db, err |-> IF 1 \in F THEN StoreErr ELSE Nil]

----------------------------------------------------------------------------
(* Random tokens and token validation *)

letters == <<"0", "1", "2", "3", "4", "5", "6", "7", "8", "9",
             "A", "B", "C", "D", "E", "F", "G", "H", "I", "J", "K", "L", "M",
             "N", "O", "P", "Q", "R", "S", "T", "U", "V", "W", "X", "Y", "Z",
             "a", "b", "c", "d", "e", "f", "g", "h", "i", "j", "k", "l", "m",
             "n", "o", "p", "q", "r", "s", "t", "u", "v", "w", "x", "y", "z",
             "-">>

\* lib.GenerateRandomString(n) when every draw of the random source is rnd
GenerateRandomString(n, rnd) == [i \in 1..n |-> letters[rnd + 1]]

\* validation.IsIncomingTokenValid
IsIncomingTokenValid(token, tokenMaxLength) ==
    IF Len(token) = 0 THEN "empty token"
    ELSE IF Len(token) > tokenMaxLength THEN "token too long"
    ELSE Nil

----------------------------------------------------------------------------
(* Password-reset service *)

passwordResetKey(userID) == <<redisStoreNamePasswordReset, userID>>

\* mutant: an existing token is kept (SET only if the key is absent)
CreatePasswordResetTokenRun_KeepsExisting(d, userID, rnd, F) ==
    LET key == passwordResetKey(userID)
        token == GenerateRandomString(passwordResetTokenMaxLength, rnd)
    IN  IF userID = "" THEN Res(d, FALSE, NoVal, "invalid user id")
        ELSE IF key \in DOMAIN d THEN Res(d, FALSE, token, Nil)
        ELSE Res(RedisSet(d, key, token, PasswordResetTTL), FALSE, token, Nil)

\* CreatePasswordResetToken; its SET is store call 1
CreatePasswordResetTokenRun(d, userID, rnd, F) ==
    IF userID = "" THEN Res(d, FALSE, NoVal, "invalid user id")
    ELSE LET token == GenerateRandomString(passwordResetTokenMaxLength, rnd)
         IN  IF 1 \in F THEN Res(d, FALSE, NoVal, StoreErr)
             ELSE Res(RedisSet(d, passwordResetKey(userID), token,
                               PasswordResetTTL),
                      FALSE, token, Nil)

\* mutant: a token that verifies is consumed
VerifyPasswordResetTokenRun_Consumes(d, userID, token, F) ==
    LET key == passwordResetKey(userID)
    IN  IF userID = "" THEN Res(d, FALSE, NoVal, "invalid user id")
        ELSE IF IsIncomingTokenValid(token, passwordResetTokenMaxLength) # Nil
        THEN Res(d, FALSE, NoVal,
                 IsIncomingTokenValid(token, passwordResetTokenMaxLength))
        ELSE IF key \in DOMAIN d /\ d[key].val = token
        THEN Res(RedisDel(d, key), TRUE, NoVal, Nil)
        ELSE Res(d, FALSE, NoVal, Nil)

\* mutant: any stored token makes the verify succeed (no comparison)
VerifyPasswordResetTokenRun_AnyStored(d, userID, token, F) ==
    IF userID = "" THEN Res(d, FALSE, NoVal, "invalid user id")
    ELSE IF IsIncomingTokenValid(token, passwordResetTokenMaxLength) # Nil
    THEN Res(d, FALSE, NoVal,
             IsIncomingTokenValid(token, passwordResetTokenMaxLength))
    ELSE Res(d, passwordResetKey(userID) \in DOMAIN d, NoVal, Nil)

\* VerifyPasswordResetToken; its GET is store call 1
VerifyPasswordResetTokenRun(d, userID, token, F) ==
    IF userID = "" THEN Res(d, FALSE, NoVal, "invalid user id")
    ELSE IF IsIncomingTokenValid(token, passwordResetTokenMaxLength) # Nil
    THEN Res(d, FALSE, NoVal,
             IsIncomingTokenValid(token, passwordResetTokenMaxLength))
    ELSE LET g == RedisGet(d, passwordResetKey(userID), 1 \in F)
         IN  IF g.err = RedisNil THEN Res(d, FALSE, NoVal, Nil)
             ELSE IF g.err # Nil THEN Res(d, FALSE, NoVal, g.err)
             ELSE Res(d, g.val = token, NoVal, Nil)

\* mutants: the stored token is deleted without being compared; an absent
\* token is no error
RevokePasswordResetTokenRun_NoCompare(d, userID, token, F) ==
    LET key == passwordResetKey(userID)
    IN  IF userID = "" THEN Res(d, FALSE, NoVal, "invalid user id")
        ELSE IF IsIncomingTokenValid(token, passwordResetTokenMaxLength) # Nil
        THEN Res(d, FALSE, NoVal,
                 IsIncomingTokenValid(token, passwordResetTokenMaxLength))
        ELSE IF key \notin DOMAIN d
        THEN Res(d, FALSE, NoVal, "token not found or already revoked")
        ELSE Res(RedisDel(d, key), FALSE, NoVal, Nil)
RevokePasswordResetTokenRun_Idempotent(d, userID, token, F) ==
    LET key == passwordResetKey(userID)
    IN  IF userID = "" THEN Res(d, FALSE, NoVal, "invalid user id")
        ELSE IF IsIncomingTokenValid(token, passwordResetTokenMaxLength) # Nil
        THEN Res(d, FALSE, NoVal,
                 IsIncomingTokenValid(token, passwordResetTokenMaxLength))
        ELSE IF key \in DOMAIN d /\ d[key].val # token
        THEN Res(d, FALSE, NoVal, "token mismatch")
        ELSE Res(RedisDel(d, key), FALSE, NoVal, Nil)

\* RevokePasswordResetToken; GET is store call 1, DEL is store call 2
RevokePasswordResetTokenRun(d, userID, token, F) ==
    IF userID = "" THEN Res(d, FALSE, NoVal, "invalid user id")
    ELSE IF IsIncomingTokenValid(token, passwordResetTokenMaxLength) # Nil
    THEN Res(d, FALSE, NoVal,
             IsIncomingTokenValid(token, passwordResetTokenMaxLength))
    ELSE LET key == passwordResetKey(userID)
             g == RedisGet(d, key, 1 \in F)
         IN  IF g.err = RedisNil
             THEN Res(d, FALSE, NoVal, "token not found or already revoked")
             ELSE IF g.err # Nil THEN Res(d, FALSE, NoVal, g.err)
             ELSE IF g.val # token THEN Res(d, FALSE, NoVal, "token mismatch")
             ELSE IF 2 \in F THEN Res(d, FALSE, NoVal, StoreErr)
             ELSE Res(RedisDel(d, key), FALSE, NoVal, Nil)

\* the scan-and-delete loop of the RevokeAll... methods: SCAN is store call 1,
\* a failing DEL of the loop is call 2; part holds the keys the loop deleted
\* before that DEL failed
ScanAndDelete(d, prefix, F, part) ==
    LET keys == IF 1 \in F THEN {} ELSE RedisScan(d, prefix)
    IN  IF keys # {} /\ 2 \in F
        THEN [db |-> RedisDelAll(d, keys \cap part), err |-> "failed to delete key"]
        ELSE [db |-> RedisDelAll(d, keys),
              err |-> IF 1 \in F THEN StoreErr ELSE Nil]

RevokeAllPasswordResetTokensRun(d, F, part) ==
    ScanAndDelete(d, <<redisStoreNamePasswordReset>>, F, part)

----------------------------------------------------------------------------
(* Refresh-token service *)

refreshKey(userID, token) ==
    <<redisStoreNameRefreshToken, Itoa(userID), token>>

\* mutant: the tokens the subject already has are revoked (one per subject)
CreateRefreshTokenRun_Replaces(d, userID, rnd, F) ==
    LET token == GenerateRandomString(refreshTokenMaxLength, rnd)
        d0 == IF userID <= 0 THEN d
              ELSE RedisDelAll(d, RedisScan(d, <<redisStoreNameRefreshToken,
                                                 Itoa(userID)>>))
    IN  IF userID <= 0 THEN Res(d, FALSE, NoVal, "invalid user id")
        ELSE Res(RedisSet(d0, refreshKey(userID, token), <<"1">>,
                          RefreshTokenTTL),
                 FALSE, token, Nil)

\* CreateRefreshToken; its SET is store call 1
CreateRefreshTokenRun(d, userID, rnd, F) ==
    IF userID <= 0 THEN Res(d, FALSE, NoVal, "invalid user id")
    ELSE LET token == GenerateRandomString(refreshTokenMaxLength, rnd)
         IN  IF 1 \in F THEN Res(d, FALSE, NoVal, StoreErr)
             ELSE Res(RedisSet(d, refreshKey(userID, token), <<"1">>,
                               RefreshTokenTTL),
                      FALSE, token, Nil)

\* mutant: a token that verifies is consumed
VerifyRefreshTokenRun_Consumes(d, userID, token, F) ==
    IF userID <= 0 THEN Res(d, FALSE, NoVal, "invalid user id")
    ELSE IF IsIncomingTokenValid(token, refreshTokenMaxLength) # Nil
    THEN Res(d, FALSE, NoVal,
             IsIncomingTokenValid(token, refreshTokenMaxLength))
    ELSE IF refreshKey(userID, token) \in DOMAIN d
    THEN Res(RedisDel(d, refreshKey(userID, token)), TRUE, NoVal, Nil)
    ELSE Res(d, FALSE, NoVal, Nil)

\* VerifyRefreshToken that takes a failed GET for an absent token
VerifyRefreshTokenRun_HidesError(d, userID, token, F) ==
    IF userID <= 0 THEN Res(d, FALSE, NoVal, "invalid user id")
    ELSE IF IsIncomingTokenValid(token, refreshTokenMaxLength) # Nil
    THEN Res(d, FALSE, NoVal,
             IsIncomingTokenValid(token, refreshTokenMaxLength))
    ELSE LET g == RedisGet(d, refreshKey(userID, token), 1 \in F)
         IN  IF g.err # Nil THEN Res(d, FALSE, NoVal, Nil)
             ELSE Res(d, g.val = <<"1">>, NoVal, Nil)

\* VerifyRefreshToken; its GET is store call 1
VerifyRefreshTokenRun(d, userID, token, F) ==
    IF userID <= 0 THEN Res(d, FALSE, NoVal, "invalid user id")
    ELSE IF IsIncomingTokenValid(token, refreshTokenMaxLength) # Nil
    THEN Res(d, FALSE, NoVal,
             IsIncomingTokenValid(token, refreshTokenMaxLength))
    ELSE LET g == RedisGet(d, refreshKey(userID, token), 1 \in F)
         IN  IF g.err = RedisNil THEN Res(d, FALSE, NoVal, Nil)
             ELSE IF g.err # Nil THEN Res(d, FALSE, NoVal, g.err)
             ELSE Res(d, g.val = <<"1">>, NoVal, Nil)

\* mutant: revoking a token the store does not hold is an error
RevokeRefreshTokenRun_Strict(d, userID, token, F) ==
    IF userID <= 0 THEN Res(d, FALSE, NoVal, "invalid user id")
    ELSE IF IsIncomingTokenValid(token, refreshTokenMaxLength) # Nil
    THEN Res(d, FALSE, NoVal,
             IsIncomingTokenValid(token, refreshTokenMaxLength))
    ELSE IF refreshKey(userID, token) \notin DOMAIN d
    THEN Res(d, FALSE, NoVal, "token not found or already revoked")
    ELSE Res(RedisDel(d, refreshKey(userID, token)), FALSE, NoVal, Nil)

\* RevokeRefreshToken that deletes the token under every subject
RevokeRefreshTokenRun_AnySubject(d, userID, token, F) ==
    IF userID <= 0 THEN Res(d, FALSE, NoVal, "invalid user id")
    ELSE IF IsIncomingTokenValid(token, refreshTokenMaxLength) # Nil
    THEN Res(d, FALSE, NoVal,
             IsIncomingTokenValid(token, refreshTokenMaxLength))
    ELSE IF 1 \in F THEN Res(d, FALSE, NoVal, StoreErr)
    ELSE Res(RedisDelAll(d, {k \in RedisScan(d, <<redisStoreNameRefreshToken>>) :
                               k[3] = token}),
             FALSE, NoVal, Nil)

\* RevokeRefreshToken; its DEL is store call 1
RevokeRefreshTokenRun(d, userID, token, F) ==
    IF userID <= 0 THEN Res(d, FALSE, NoVal, "invalid user id")
    ELSE IF IsIncomingTokenValid(token, refreshTokenMaxLength) # Nil
    THEN Res(d, FALSE, NoVal,
             IsIncomingTokenValid(token, refreshTokenMaxLength))
    ELSE IF 1 \in F THEN Res(d, FALSE, NoVal, StoreErr)
    ELSE Res(RedisDel(d, refreshKey(userID, token)), FALSE, NoVal, Nil)

\* mutant: the scan pattern leaves the subject out ("refresh:*")
RevokeAllUserRefreshTokensRun_AllSubjects(d, userID, F, part) ==
    IF userID <= 0 THEN [db |-> d, err |-> "invalid user id"]
    ELSE ScanAndDelete(d, <<redisStoreNameRefreshToken>>, F, part)

\* RevokeAllUserRefreshTokens; SCAN is store call 1, a failing DEL is call 2
RevokeAllUserRefreshTokensRun(d, userID, F, part) ==
    IF userID <= 0 THEN [db |-> d, err |-> "invalid user id"]
    ELSE ScanAndDelete(d, <<redisStoreNameRefreshToken, Itoa(userID)>>, F, part)

RevokeAllRefreshTokensRun(d, F, part) ==
    ScanAndDelete(d, <<redisStoreNameRefreshToken>>, F, part)

----------------------------------------------------------------------------
(* The calls on the OTP service and their history *)

\* the subject the calls are made on, and the user ids a caller passes (0 is
\* rejected as userID <= 0 is)
Users == {1}
UserIDs == {0} \cup Users

\* a call and its results: ret is the boolean returned, val the token or code
\* returned, err the error; pre is what the subject's history counted before
Call(op, user, arg, pre, ret, val, err) ==
    [op |-> op, user |-> user, arg |-> arg, pre |-> pre,
     ret |-> ret, val |-> val, err |-> err]

\* what is recorded of the calls on one OTP subject:
\*   issued    the code the latest CreateOTP returned (NoVal: none, or it failed)
\*   wrong     the number of VerifyOTP calls with a well-formed code other
\*             than issued that returned (false, nil) since that CreateOTP,
\*             if nothing else happened to the subject since; -1 otherwise
\*   prev      while wrong >= 0, the code the CreateOTP before the latest
\*             one returned
\*   verified  a VerifyOTP returned true since the latest CreateOTP
OTPHist0 == [issued |-> NoVal, prev |-> NoVal, wrong |-> -1, verified |-> FALSE]

OTPCreated(h, r) ==
    IF r.err = Nil
    THEN [issued |-> r.val, prev |-> h.issued, wrong |-> 0, verified |-> FALSE]
    ELSE OTPHist0

OTPDisturbed(h) == [h EXCEPT !.wrong = -1, !.prev = NoVal]

OTPVerified(h, otp, r) ==
    IF r.ret THEN [OTPDisturbed(h) EXCEPT !.verified = TRUE]
    ELSE IF r.err = Nil /\ otp # h.issued /\ h.wrong >= 0
    THEN [h EXCEPT !.wrong = IF @ > maxAttempts THEN @ ELSE @ + 1]
    ELSE OTPDisturbed(h)

OTPPre(userID) == IF userID \in Users THEN otpHist[userID].wrong ELSE -1

CreateOTP(userID, rnd, F) ==
    LET r == CreateOTPRun(db, userID, rnd, F)
    IN  /\ db' = r.db
        /\ last' = Call("CreateOTP", userID, NoVal, OTPPre(userID), r.ret, r.val, r.err)
        /\ otpHist' = IF userID \in Users
                      THEN [otpHist EXCEPT ![userID] = OTPCreated(@, r)]
                      ELSE otpHist
        /\ UNCHANGED <<prHist, rtHist>>

VerifyOTP(userID, otp, F) ==
    LET r == VerifyOTPRun(db, userID, otp, F)
    IN  /\ db' = r.db
        /\ last' = Call("VerifyOTP", userID, otp, OTPPre(userID), r.ret, r.val, r.err)
        /\ otpHist' = IF userID \in Users
                      THEN [otpHist EXCEPT ![userID] = OTPVerified(@, otp, r)]
                      ELSE otpHist
        /\ UNCHANGED <<prHist, rtHist>>

RevokeOTP(userID, F) ==
    LET r == RevokeOTPRun(db, userID, F, 1)
    IN  /\ db' = r.db
        /\ last' = Call("RevokeOTP", userID, NoVal, OTPPre(userID), FALSE, NoVal, r.err)
        /\ otpHist' = IF userID \in Users
                      THEN [otpHist EXCEPT ![userID] = OTPDisturbed(@)]
                      ELSE otpHist
        /\ UNCHANGED <<prHist, rtHist>>

RevokeAllOTPs(F, part) ==
    LET r == RevokeAllOTPsRun(db, F, part)
    IN  /\ db' = r.db
        /\ last' = Call("RevokeAllOTPs", 0, NoVal, -1, FALSE, NoVal, r.err)
        /\ otpHist' = [u \in Users |-> OTPDisturbed(otpHist[u])]
        /\ UNCHANGED <<prHist, rtHist>>

\* the codes a caller submits: the ones the generator can return, one it
\* never returns, and malformed ones (five digits, a letter, empty)
WrongOTP == <<"9", "9", "9", "9", "9", "9">>
GeneratedOTPs == {GenerateOTP(n) : n \in 0..MaxRand}
WellFormedOTPs == GeneratedOTPs \cup {WrongOTP}
MalformedOTPs == {<<"1", "2", "3", "4", "5">>,
                  <<"1", "2", "3", "4", "5", "a">>, <<>>}
OTPInputs == WellFormedOTPs \cup MalformedOTPs

----------------------------------------------------------------------------
(* The calls on the password-reset service and their history *)

PRUsers == {"u1"}
PRUserIDs == {""} \cup PRUsers

\* what is recorded of the calls on one password-reset subject:
\*   issued   the token the latest CreatePasswordResetToken returned
\*   live     since then the subject had no successful revoke, no
\*            RevokeAllPasswordResetTokens and no expiry of its key
\*   prev     while live, the token the create before the latest one returned
\*   revoked  the issued token was revoked by RevokePasswordResetToken
PRHist0 == [issued |-> NoVal, prev |-> NoVal, live |-> FALSE, revoked |-> FALSE]

PRCreated(h, r) ==
    IF r.err = Nil
    THEN [issued |-> r.val, prev |-> h.issued, live |-> TRUE, revoked |-> FALSE]
    ELSE PRHist0

PRDisturbed(h) == [h EXCEPT !.live = FALSE, !.prev = NoVal]

PRRevoked(h, r) ==
    IF r.err = Nil THEN [PRDisturbed(h) EXCEPT !.revoked = TRUE] ELSE h

\* the call repeats the previous one, a verify that returned true
Repeats(op, userID, token) ==
    last.op = op /\ last.user = userID /\ last.arg = token /\ last.ret

CreatePasswordResetToken(userID, rnd, F) ==
    LET r == CreatePasswordResetTokenRun(db, userID, rnd, F)
    IN  /\ db' = r.db
        /\ last' = Call("CreatePasswordResetToken", userID, NoVal, FALSE,
                        r.ret, r.val, r.err)
        /\ prHist' = IF userID \in PRUsers
                     THEN [prHist EXCEPT ![userID] = PRCreated(@, r)]
                     ELSE prHist
        /\ UNCHANGED <<otpHist, rtHist>>

VerifyPasswordResetToken(userID, token, F) ==
    LET r == VerifyPasswordResetTokenRun(db, userID, token, F)
    IN  /\ db' = r.db
        /\ last' = Call("VerifyPasswordResetToken", userID, token,
                        Repeats("VerifyPasswordResetToken", userID, token),
                        r.ret, r.val, r.err)
        /\ UNCHANGED <<otpHist, prHist, rtHist>>

RevokePasswordResetToken(userID, token, F) ==
    LET r == RevokePasswordResetTokenRun(db, userID, token, F)
    IN  /\ db' = r.db
        /\ last' = Call("RevokePasswordResetToken", userID, token, FALSE,
                        r.ret, r.val, r.err)
        /\ prHist' = IF userID \in PRUsers
                     THEN [prHist EXCEPT ![userID] = PRRevoked(@, r)]
                     ELSE prHist
        /\ UNCHANGED <<otpHist, rtHist>>

RevokeAllPasswordResetTokens(F, part) ==
    LET r == RevokeAllPasswordResetTokensRun(db, F, part)
    IN  /\ db' = r.db
        /\ last' = Call("RevokeAllPasswordResetTokens", "", NoVal, FALSE,
                        FALSE, NoVal, r.err)
        /\ prHist' = [u \in PRUsers |-> PRDisturbed(prHist[u])]
        /\ UNCHANGED <<otpHist, rtHist>>

\* the tokens a caller submits: the ones the generator can return, two
\* well-formed ones it never returns, an empty one and one a character too long
PRGenerated ==
    {GenerateRandomString(passwordResetTokenMaxLength, r) : r \in 0..MaxRand}
PRWellFormed ==
    PRGenerated \cup {GenerateRandomString(passwordResetTokenMaxLength, 62),
                      <<"a">>}
PRMalformed == {<<>>, GenerateRandomString(passwordResetTokenMaxLength + 1, 0)}
PRInputs == PRWellFormed \cup PRMalformed

----------------------------------------------------------------------------
(* The calls on the refresh-token service and their history *)

RTUsers == {1}
RTUserIDs == {0} \cup RTUsers

\* what is recorded of the calls on one refresh subject:
\*   live     the tokens CreateRefreshToken returned that were since neither
\*            revoked nor expired
\*   revoked  the tokens revoked while live and not returned again since
RTHist0 == [live |-> {}, revoked |-> {}]

RTCreated(h, r) ==
    IF r.err = Nil
    THEN [live |-> h.live \cup {r.val}, revoked |-> h.revoked \ {r.val}]
    ELSE h

RTRevoked(h, token, r) ==
    IF r.err = Nil
    THEN [live |-> h.live \ {token}, revoked |-> h.revoked \cup (h.live \cap {token})]
    ELSE h

\* on an error of the loop, the tokens whose keys it had deleted
RTRevokedAll(h, userID, d, r) ==
    LET gone == IF r.err = Nil THEN h.live
                ELSE {t \in h.live : refreshKey(userID, t) \notin DOMAIN r.db}
    IN  [live |-> h.live \ gone, revoked |-> h.revoked \cup gone]

CreateRefreshToken(userID, rnd, F) ==
    LET r == CreateRefreshTokenRun(db, userID, rnd, F)
    IN  /\ db' = r.db
        /\ last' = Call("CreateRefreshToken", userID, NoVal, FALSE,
                        r.ret, r.val, r.err)
        /\ rtHist' = IF userID \in RTUsers
                     THEN [rtHist EXCEPT ![userID] = RTCreated(@, r)]
                     ELSE rtHist
        /\ UNCHANGED <<otpHist, prHist>>

VerifyRefreshToken(userID, token, F) ==
    LET r == VerifyRefreshTokenRun(db, userID, token, F)
    IN  /\ db' = r.db
        /\ last' = Call("VerifyRefreshToken", userID, token,
                        Repeats("VerifyRefreshToken", userID, token),
                        r.ret, r.val, r.err)
        /\ UNCHANGED <<otpHist, prHist, rtHist>>

RevokeRefreshToken(token, userID, F) ==
    LET r == RevokeRefreshTokenRun(db, userID, token, F)
    IN  /\ db' = r.db
        /\ last' = Call("RevokeRefreshToken", userID, token,
                        userID \in RTUsers /\ token \in rtHist[userID].revoked,
                        r.ret, r.val, r.err)
        /\ rtHist' = IF userID \in RTUsers /\ IsIncomingTokenValid(token, refreshTokenMaxLength) = Nil
                     THEN [rtHist EXCEPT ![userID] = RTRevoked(@, token, r)]
                     ELSE rtHist
        /\ UNCHANGED <<otpHist, prHist>>

RevokeAllUserRefreshTokens(userID, F, part) ==
    LET r == RevokeAllUserRefreshTokensRun(db, userID, F, part)
    IN  /\ db' = r.db
        /\ last' = Call("RevokeAllUserRefreshTokens", userID, NoVal,
                        userID \in RTUsers /\ rtHist[userID].live # {},
                        FALSE, NoVal, r.err)
        /\ rtHist' = IF userID \in RTUsers
                     THEN [rtHist EXCEPT ![userID] = RTRevokedAll(@, userID, db, r)]
                     ELSE rtHist
        /\ UNCHANGED <<otpHist, prHist>>

RevokeAllRefreshTokens(F, part) ==
    LET r == RevokeAllRefreshTokensRun(db, F, part)
    IN  /\ db' = r.db
        /\ last' = Call("RevokeAllRefreshTokens", 0, NoVal, FALSE,
                        FALSE, NoVal, r.err)
        /\ rtHist' = [u \in RTUsers |-> RTRevokedAll(rtHist[u], u, db, r)]
        /\ UNCHANGED <<otpHist, prHist>>

RTGenerated ==
    {GenerateRandomString(refreshTokenMaxLength, r) : r \in 0..MaxRand}
RTWellFormed ==
    RTGenerated \cup {GenerateRandomString(refreshTokenMaxLength, 62), <<"a">>}
RTMalformed == {<<>>, GenerateRandomString(refreshTokenMaxLength + 1, 0)}
RTInputs == RTWellFormed \cup RTMalformed

----------------------------------------------------------------------------
(* Concurrent callers: a call runs one store call at a time, and the store
   calls of different callers interleave *)

Procs == {1, 2, 3}

\* a caller: pc is the store call it issues next ("idle" before a call,
\* "done" once the call has returned ret, val, err); arg is the code or
\* token of the call
Proc(pc, op, user, arg, ret, val, err) ==
    [pc |-> pc, op |-> op, user |-> user, arg |-> arg,
     ret |-> ret, val |-> val, err |-> err]
Idle == Proc("idle", "none", 0, NoVal, FALSE, NoVal, Nil)

At(p, op, pc) == procs[p].op = op /\ procs[p].pc = pc
Goto(p, pc) == procs' = [procs EXCEPT ![p].pc = pc]
Done(p, ret, val, err) ==
    procs' = [procs EXCEPT ![p].pc = "done", ![p].ret = ret,
                           ![p].val = val, ![p].err = err]

\* since the last CreateOTP returned: compared counts the VerifyOTP calls
\* that compared their code with the stored hash (capped above maxAttempts),
\* trues the VerifyOTP calls that returned true
Tally0 == [compared |-> 0, trues |-> 0]
Capped(n) == IF n > maxAttempts THEN n ELSE n + 1

\* CreateOTP, lines 151-161: the checks before the first store call
StartCreateOTP(p, userID, rnd) ==
    /\ procs[p].pc = "idle"
    /\ procs' = [procs EXCEPT ![p] =
                   IF userID <= 0
                   THEN Proc("done", "CreateOTP", userID, NoVal,
                             FALSE, NoVal, "invalid user id")
                   ELSE Proc("set", "CreateOTP", userID, GenerateOTP(rnd),
                             FALSE, NoVal, Nil)]
    /\ UNCHANGED <<db, last, otpHist, prHist, rtHist, tally, expired, clock, accessTokens>>

\* CreateOTP: SET of the hash
CreateOTPSet(p, fail) ==
    /\ At(p, "CreateOTP", "set")
    /\ IF fail
       THEN Done(p, FALSE, NoVal, StoreErr) /\ UNCHANGED db
       ELSE /\ db' = RedisSet(db, otpKey(procs[p].user), Hash(procs[p].arg),
                              OTPTTL)
            /\ Goto(p, "reset")
    /\ UNCHANGED <<last, otpHist, prHist, rtHist, tally, expired, clock, accessTokens>>

\* CreateOTP: resetAttempts; on success the call returns the code
CreateOTPReset(p, fail) ==
    /\ At(p, "CreateOTP", "reset")
    /\ LET r == resetAttempts(db, procs[p].user, IF fail THEN {1} ELSE {}, 1)
       IN  /\ db' = r.db
           /\ IF r.err # Nil
              THEN Goto(p, "rollback") /\ UNCHANGED tally
              ELSE Done(p, FALSE, procs[p].arg, Nil) /\ tally' = Tally0
    /\ UNCHANGED <<last, otpHist, prHist, rtHist, expired, clock, accessTokens>>

\* CreateOTP: the rollback DEL, its error ignored
CreateOTPRollback(p, fail) ==
    /\ At(p, "CreateOTP", "rollback")
    /\ db' = IF fail THEN db ELSE RedisDel(db, otpKey(procs[p].user))
    /\ Done(p, FALSE, NoVal, "failed to reset attempts counter")
    /\ UNCHANGED <<last, otpHist, prHist, rtHist, tally, expired, clock, accessTokens>>

\* VerifyOTP, lines 229-239: the checks before the first store call
StartVerifyOTP(p, userID, otp) ==
    /\ procs[p].pc = "idle"
    /\ procs' = [procs EXCEPT ![p] =
                   IF userID <= 0
                   THEN Proc("done", "VerifyOTP", userID, otp,
                             FALSE, NoVal, "invalid user id")
                   ELSE IF ~ISOTPValid(otp)
                   THEN Proc("done", "VerifyOTP", userID, otp,
                             FALSE, NoVal, "invalid otp")
                   ELSE Proc("attempts", "VerifyOTP", userID, otp,
                             FALSE, NoVal, Nil)]
    /\ UNCHANGED <<db, last, otpHist, prHist, rtHist, tally, expired, clock, accessTokens>>

\* VerifyOTP: getAttempts and the rate-limit test
VerifyOTPAttempts(p, fail) ==
    /\ At(p, "VerifyOTP", "attempts")
    /\ LET a == getAttempts(db, procs[p].user, IF fail THEN {1} ELSE {}, 1)
       IN  IF a.err # Nil THEN Done(p, FALSE, NoVal, a.err)
           ELSE IF a.val # <<>> /\ Atoi(a.val).err # Nil
           THEN Done(p, FALSE, NoVal, "corrupted attempts counter")
           ELSE IF a.val # <<>> /\ RateLimited(Atoi(a.val).n)
           THEN Done(p, FALSE, NoVal, "max attempts exceeded")
           ELSE Goto(p, "get")
    /\ UNCHANGED <<db, last, otpHist, prHist, rtHist, tally, expired, clock, accessTokens>>

\* VerifyOTP: GET of the hash and, when there is one, the comparison
VerifyOTPGet(p, fail) ==
    /\ At(p, "VerifyOTP", "get")
    /\ LET g == RedisGet(db, otpKey(procs[p].user), fail)
       IN  IF g.err = RedisNil THEN Goto(p, "exists") /\ UNCHANGED tally
           ELSE IF g.err # Nil
           THEN Done(p, FALSE, NoVal, g.err) /\ UNCHANGED tally
           ELSE /\ tally' = [tally EXCEPT !.compared = Capped(@)]
                /\ IF ~CheckHash(procs[p].arg, g.val)
                   THEN Goto(p, "exists")
                   ELSE Goto(p, "del")
    /\ UNCHANGED <<db, last, otpHist, prHist, rtHist, expired, clock, accessTokens>>

\* VerifyOTP: incrementAttempts, EXISTS; the call returns false whatever
\* becomes of the increment
VerifyOTPExists(p, fail) ==
    /\ At(p, "VerifyOTP", "exists")
    /\ IF fail THEN Done(p, FALSE, NoVal, Nil)
       ELSE IF RedisExists(db, otpAttemptsKey(procs[p].user)) = 0
       THEN Goto(p, "setone")
       ELSE Goto(p, "incr")
    /\ UNCHANGED <<db, last, otpHist, prHist, rtHist, tally, expired, clock, accessTokens>>

\* VerifyOTP: incrementAttempts, SET of the counter to 1
VerifyOTPSetOne(p, fail) ==
    /\ At(p, "VerifyOTP", "setone")
    /\ db' = IF fail THEN db
             ELSE RedisSet(db, otpAttemptsKey(procs[p].user), Itoa(1), OTPTTL)
    /\ Done(p, FALSE, NoVal, Nil)
    /\ UNCHANGED <<last, otpHist, prHist, rtHist, tally, expired, clock, accessTokens>>

\* VerifyOTP: incrementAttempts, INCR of the counter
VerifyOTPIncr(p, fail) ==
    /\ At(p, "VerifyOTP", "incr")
    /\ db' = IF fail THEN db
             ELSE RedisIncr(db, otpAttemptsKey(procs[p].user))
    /\ Done(p, FALSE, NoVal, Nil)
    /\ UNCHANGED <<last, otpHist, prHist, rtHist, tally, expired, clock, accessTokens>>

\* VerifyOTP: RevokeOTP, DEL of the hash
VerifyOTPDel(p, fail) ==
    /\ At(p, "VerifyOTP", "del")
    /\ IF fail
       THEN Done(p, FALSE, NoVal, StoreErr) /\ UNCHANGED db
       ELSE db' = RedisDel(db, otpKey(procs[p].user)) /\ Goto(p, "delattempts")
    /\ UNCHANGED <<last, otpHist, prHist, rtHist, tally, expired, clock, accessTokens>>

\* VerifyOTP: RevokeOTP, revokeAttempts; on success the call returns true
VerifyOTPDelAttempts(p, fail) ==
    /\ At(p, "VerifyOTP", "delattempts")
    /\ LET r == revokeAttempts(db, procs[p].user, IF fail THEN {1} ELSE {}, 1)
       IN  /\ db' = r.db
           /\ IF r.err # Nil
              THEN Done(p, FALSE, NoVal, r.err) /\ UNCHANGED tally
              ELSE /\ Done(p, TRUE, NoVal, Nil)
                   /\ tally' = [tally EXCEPT !.trues = Capped(@)]
    /\ UNCHANGED <<last, otpHist, prHist, rtHist, expired, clock, accessTokens>>

\* CreatePasswordResetToken, lines 110-129: the checks and the token
StartCreatePasswordResetToken(p, userID, rnd) ==
    /\ procs[p].pc = "idle"
    /\ procs' = [procs EXCEPT ![p] =
                   IF userID = ""
                   THEN Proc("done", "CreatePasswordResetToken", userID,
                             NoVal, FALSE, NoVal, "invalid user id")
                   ELSE Proc("set", "CreatePasswordResetToken", userID,
                             GenerateRandomString(passwordResetTokenMaxLength,
                                                  rnd),
                             FALSE, NoVal, Nil)]
    /\ UNCHANGED <<db, last, otpHist, prHist, rtHist, tally, expired, clock, accessTokens>>

\* CreatePasswordResetToken: its SET
CreatePasswordResetTokenSet(p, fail) ==
    /\ At(p, "CreatePasswordResetToken", "set")
    /\ IF fail
       THEN Done(p, FALSE, NoVal, StoreErr) /\ UNCHANGED db
       ELSE /\ db' = RedisSet(db, passwordResetKey(procs[p].user),
                              procs[p].arg, PasswordResetTTL)
            /\ Done(p, FALSE, procs[p].arg, Nil)
    /\ UNCHANGED <<last, otpHist, prHist, rtHist, tally, expired, clock, accessTokens>>

\* the caller makes its next call
Return(p) ==
    /\ procs[p].pc = "done"
    /\ procs' = [procs EXCEPT ![p] = Idle]
    /\ UNCHANGED <<db, last, otpHist, prHist, rtHist, tally, expired, clock, accessTokens>>

\* the calls above left alone
Sequential == UNCHANGED <<procs, tally, expired, clock, accessTokens>>

----------------------------------------------------------------------------
(* Time, and the specifications *)

\* time passes: the store expires keys; a subject that loses a key to expiry
\* is no longer in the situation its last create left
Tick ==
    /\ db' = RedisTick(db)
    /\ last' = Call("Tick", 0, NoVal, -1, FALSE, NoVal, Nil)
    /\ otpHist' = [u \in Users |->
                     IF {otpKey(u), otpAttemptsKey(u)} \cap Expiring(db) # {}
                     THEN OTPDisturbed(otpHist[u]) ELSE otpHist[u]]
    /\ prHist' = [u \in PRUsers |->
                    IF passwordResetKey(u) \in Expiring(db)
                    THEN PRDisturbed(prHist[u]) ELSE prHist[u]]
    /\ rtHist' = [u \in RTUsers |->
                    [rtHist[u] EXCEPT !.live =
                        {t \in @ : refreshKey(u, t) \notin Expiring(db)}]]

Init ==
    /\ db = [k \in {} |-> Entry(<<>>, 0)]
    /\ last = Call("none", 0, NoVal, -1, FALSE, NoVal, Nil)
    /\ otpHist = [u \in Users |-> OTPHist0]
    /\ prHist = [u \in PRUsers |-> PRHist0]
    /\ rtHist = [u \in RTUsers |-> RTHist0]
    /\ procs = [p \in Procs |-> Idle]
    /\ tally = Tally0
    /\ expired = {}
    /\ clock = 0
    /\ accessTokens = {}

\* the OTP service, every store call succeeding
NextOTP ==
    \/ \E userID \in UserIDs, rnd \in 0..MaxRand :
          CreateOTP(userID, rnd, {}) /\ Sequential
    \/ \E userID \in UserIDs, otp \in OTPInputs :
          VerifyOTP(userID, otp, {}) /\ Sequential
    \/ \E userID \in UserIDs :
          RevokeOTP(userID, {}) /\ Sequential
    \/ RevokeAllOTPs({}, {}) /\ Sequential
    \/ Tick /\ Sequential

SpecOTP == Init /\ [][NextOTP]_vars

\* the password-reset service, every store call succeeding
NextPasswordReset ==
    \/ \E userID \in PRUserIDs, rnd \in 0..MaxRand :
          CreatePasswordResetToken(userID, rnd, {}) /\ Sequential
    \/ \E userID \in PRUserIDs, token \in PRInputs :
          VerifyPasswordResetToken(userID, token, {}) /\ Sequential
    \/ \E userID \in PRUserIDs, token \in PRInputs :
          RevokePasswordResetToken(userID, token, {}) /\ Sequential
    \/ RevokeAllPasswordResetTokens({}, {}) /\ Sequential
    \/ Tick /\ Sequential

SpecPasswordReset == Init /\ [][NextPasswordReset]_vars

\* the refresh-token service, every store call succeeding
NextRefresh ==
    \/ \E userID \in RTUserIDs, rnd \in 0..MaxRand :
          CreateRefreshToken(userID, rnd, {}) /\ Sequential
    \/ \E userID \in RTUserIDs, token \in RTInputs :
          VerifyRefreshToken(userID, token, {}) /\ Sequential
    \/ \E userID \in RTUserIDs, token \in RTInputs :
          RevokeRefreshToken(token, userID, {}) /\ Sequential
    \/ \E userID \in RTUserIDs :
          RevokeAllUserRefreshTokens(userID, {}, {}) /\ Sequential
    \/ RevokeAllRefreshTokens({}, {}) /\ Sequential
    \/ Tick /\ Sequential

SpecRefresh == Init /\ [][NextRefresh]_vars

\* the refresh-token service with a second subject, whose tokens are only in
\* the store: tokens are issued, revoked subject by subject and left to expire
RTOthers == {2}
RTSubjects == RTUsers \cup RTOthers

NextRefreshSubjects ==
    \/ \E userID \in RTSubjects, rnd \in 0..MaxRand :
          CreateRefreshToken(userID, rnd, {}) /\ Sequential
    \/ \E userID \in RTSubjects :
          RevokeAllUserRefreshTokens(userID, {}, {}) /\ Sequential
    \/ Tick /\ Sequential

SpecRefreshSubjects == Init /\ [][NextRefreshSubjects]_vars

\* concurrent creates on the single-cardinality services: every caller makes
\* one CreateOTP or CreatePasswordResetToken call, whose store calls succeed
\* or fail
NextCreateConcurrent ==
    \E p \in Procs :
        \/ \E userID \in Users, rnd \in 0..MaxRand :
              StartCreateOTP(p, userID, rnd)
        \/ \E fail \in BOOLEAN : CreateOTPSet(p, fail)
        \/ \E fail \in BOOLEAN : CreateOTPReset(p, fail)
        \/ \E fail \in BOOLEAN : CreateOTPRollback(p, fail)
        \/ \E userID \in PRUsers, rnd \in 0..MaxRand :
              StartCreatePasswordResetToken(p, userID, rnd)
        \/ \E fail \in BOOLEAN : CreatePasswordResetTokenSet(p, fail)

SpecCreateConcurrent == Init /\ [][NextCreateConcurrent]_vars

\* concurrent verifies of the codes of one subject: a CreateOTP runs on its
\* own while no VerifyOTP call is in flight (so that every verdict counted in
\* tally belongs to the code created last), two callers run VerifyOTP calls
\* one store call at a time, again and again, and the store calls of
\* incrementAttempts succeed or fail
Verifiers == {1, 2}

NextVerifyConcurrent ==
    \/ \E userID \in Users, rnd \in 0..MaxRand :
          /\ \A p \in Verifiers : procs[p].pc = "idle"
          /\ CreateOTP(userID, rnd, {})
          /\ tally' = Tally0
          /\ UNCHANGED <<procs, expired, clock, accessTokens>>
    \/ \E p \in Verifiers :
          \/ \E userID \in Users, otp \in GeneratedOTPs :
                StartVerifyOTP(p, userID, otp)
          \/ VerifyOTPAttempts(p, FALSE)
          \/ VerifyOTPGet(p, FALSE)
          \/ \E fail \in BOOLEAN : VerifyOTPExists(p, fail)
          \/ \E fail \in BOOLEAN : VerifyOTPSetOne(p, fail)
          \/ \E fail \in BOOLEAN : VerifyOTPIncr(p, fail)
          \/ VerifyOTPDel(p, FALSE)
          \/ VerifyOTPDelAttempts(p, FALSE)
          \/ Return(p)

SpecVerifyConcurrent == Init /\ [][NextVerifyConcurrent]_vars

\* a step from store d to store e expires the keys that a clock tick removes;
\* a key written again is no longer an expired one
Expire(x, d, e, tick) ==
    {c \in x \cup (IF tick THEN {[key |-> k, val |-> d[k].val] :
                                   k \in DOMAIN d \ DOMAIN e}
                    ELSE {}) :
        c.key \notin DOMAIN e}

\* a call or a tick recorded in the expired keys
Aging ==
    /\ expired' = Expire(expired, db, db', last'.op = "Tick")
    /\ UNCHANGED <<procs, tally, clock, accessTokens>>

\* credentials are created and left to expire, and OTP codes are tried (one
\* token value stands for the tokens of each token service)
NextExpiry ==
    \/ \E userID \in Users, rnd \in 0..MaxRand :
          CreateOTP(userID, rnd, {}) /\ Aging
    \/ \E userID \in Users, otp \in GeneratedOTPs :
          VerifyOTP(userID, otp, {}) /\ Aging
    \/ \E userID \in PRUsers :
          CreatePasswordResetToken(userID, 0, {}) /\ Aging
    \/ \E userID \in RTUsers :
          CreateRefreshToken(userID, 0, {}) /\ Aging
    \/ Tick /\ Aging

SpecExpiry == Init /\ [][NextExpiry]_vars

\* the read paths of the two token services side by side: tokens are issued,
\* verified and left to expire, for the subjects the services accept
NextVerify ==
    \/ \E userID \in PRUsers, rnd \in 0..MaxRand :
          CreatePasswordResetToken(userID, rnd, {}) /\ Sequential
    \/ \E userID \in PRUsers, token \in PRInputs :
          VerifyPasswordResetToken(userID, token, {}) /\ Sequential
    \/ \E userID \in RTUsers, rnd \in 0..MaxRand :
          CreateRefreshToken(userID, rnd, {}) /\ Sequential
    \/ \E userID \in RTUsers, token \in RTInputs :
          VerifyRefreshToken(userID, token, {}) /\ Sequential
    \/ Tick /\ Sequential

SpecVerify == Init /\ [][NextVerify]_vars

----------------------------------------------------------------------------
(* Claims on the OTP service, under SpecOTP (every store call succeeds) *)

\* what VerifyOTP(userID, otp) returns when called in the current state
VerifyOTPNow(userID, otp) == VerifyOTPRun(db, userID, otp, {})

LastVerifyOTP(u) == last.op = "VerifyOTP" /\ last.user = u

\* C1: after CreateOTP(s) returned c, VerifyOTP(s, c) with nothing on s in
\* between returns true; once a VerifyOTP(s, c) has returned true, every
\* VerifyOTP(s, c) before the next CreateOTP(s) returns false
C1_SingleUse ==
    \A u \in Users :
        LET h == otpHist[u]
        IN  /\ h.wrong = 0 =>
                /\ VerifyOTPNow(u, h.issued).ret = TRUE
                /\ VerifyOTPNow(u, h.issued).err = Nil
            /\ h.verified => VerifyOTPNow(u, h.issued).ret = FALSE

\* a VerifyOTP of the issued code returned false after one had returned true
C1_Witness ==
    \E u \in Users :
        /\ LastVerifyOTP(u)
        /\ otpHist[u].verified
        /\ last.arg = otpHist[u].issued
        /\ last.ret = FALSE

\* C2: after CreateOTP(s) returned c and exactly 5 VerifyOTP(s, w) with
\* well-formed wrong codes returned (false, nil), VerifyOTP(s, c) returns the
\* error "max attempts exceeded" and not true
C2_Lockout ==
    \A u \in Users :
        otpHist[u].wrong = 5 =>
            /\ VerifyOTPNow(u, otpHist[u].issued).ret = FALSE
            /\ VerifyOTPNow(u, otpHist[u].issued).err = "max attempts exceeded"

\* the correct code was refused after 5 wrong ones
C2_Witness ==
    \E u \in Users :
        /\ LastVerifyOTP(u)
        /\ last.pre = 5
        /\ last.arg = otpHist[u].issued
        /\ last.ret = FALSE
        /\ last.err = "max attempts exceeded"

\* C3: after CreateOTP(s) returned c, at most 4 VerifyOTP(s, w) with
\* well-formed wrong codes leave the code usable: VerifyOTP(s, c) returns
\* true, and one more wrong guess leaves the stored hash as it is
C3_WrongGuessKeepsCode ==
    \A u \in Users :
        otpHist[u].wrong \in 0..4 =>
            /\ VerifyOTPNow(u, otpHist[u].issued).ret = TRUE
            /\ VerifyOTPNow(u, otpHist[u].issued).err = Nil
            /\ otpKey(u) \in DOMAIN db
            /\ \A w \in WellFormedOTPs \ {otpHist[u].issued} :
                  /\ otpKey(u) \in DOMAIN VerifyOTPNow(u, w).db
                  /\ VerifyOTPNow(u, w).db[otpKey(u)] = db[otpKey(u)]

\* the correct code verified after 4 wrong ones
C3_Witness ==
    \E u \in Users :
        /\ LastVerifyOTP(u)
        /\ last.pre = 4
        /\ last.ret = TRUE

\* C4: when CreateOTP(s) returned c1 and then c2 # c1, VerifyOTP(s, c1)
\* returns false and VerifyOTP(s, c2) returns true; in every state at most
\* one code verifies for s and it is the one the latest CreateOTP(s) returned
C4_ReplaceOnCreate ==
    \A u \in Users :
        LET h == otpHist[u]
        IN  /\ (h.wrong >= 0 /\ h.prev # NoVal /\ h.prev # h.issued) =>
                /\ VerifyOTPNow(u, h.prev).ret = FALSE
                /\ h.wrong <= 4 => VerifyOTPNow(u, h.issued).ret = TRUE
            /\ \A x \in WellFormedOTPs :
                  VerifyOTPNow(u, x).ret = TRUE => x = h.issued

\* the replaced code was verified and refused (false, nil)
C4_Witness ==
    \E u \in Users :
        /\ LastVerifyOTP(u)
        /\ otpHist[u].prev # NoVal
        /\ otpHist[u].prev # otpHist[u].issued
        /\ last.arg = otpHist[u].prev
        /\ last.ret = FALSE
        /\ last.err = Nil

\* C5: a successful CreateOTP(s) leaves the attempts counter of s at 0
\* whatever it was before, and the code it returns verifies on the next call
C5_CreateResetsAttempts ==
    \A u \in Users, rnd \in 0..MaxRand :
        LET r == CreateOTPRun(db, u, rnd, {})
        IN  r.err = Nil =>
                /\ otpAttemptsKey(u) \in DOMAIN r.db
                /\ r.db[otpAttemptsKey(u)].val = <<"0">>
                /\ VerifyOTPRun(r.db, u, r.val, {}).ret = TRUE

\* a CreateOTP succeeded on a locked subject (5 wrong codes before it) and
\* left the counter at 0
C5_Witness ==
    \E u \in Users :
        /\ last.op = "CreateOTP" /\ last.user = u
        /\ last.pre = 5
        /\ last.err = Nil
        /\ otpAttemptsKey(u) \in DOMAIN db
        /\ db[otpAttemptsKey(u)].val = <<"0">>

----------------------------------------------------------------------------
(* Claims on the password-reset service, under SpecPasswordReset (every
   store call succeeds) *)

VerifyPasswordResetTokenNow(userID, token) ==
    VerifyPasswordResetTokenRun(db, userID, token, {})

RevokePasswordResetTokenNow(userID, token) ==
    RevokePasswordResetTokenRun(db, userID, token, {})

\* the tokens the store holds for a subject
StoredPasswordResetTokens(userID) ==
    {db[k].val : k \in {k \in DOMAIN db :
                          /\ IsPrefix(<<redisStoreNamePasswordReset>>, k)
                          /\ k[2] = userID}}

\* C6: once CreatePasswordResetToken(s) has returned t1 and then t2 (t2 other
\* than t1), and as long as the subject's token was not revoked and did not
\* expire, VerifyPasswordResetToken(s, t1) returns false and
\* VerifyPasswordResetToken(s, t2) returns true, no other token verifies, and
\* the store holds at most one reset token for the subject.
C6_ReplaceOnCreate ==
    \A u \in PRUsers :
        LET h == prHist[u]
        IN  /\ Cardinality(StoredPasswordResetTokens(u)) <= 1
            /\ h.live =>
                 /\ VerifyPasswordResetTokenNow(u, h.issued).ret
                 /\ VerifyPasswordResetTokenNow(u, h.issued).err = Nil
                 /\ StoredPasswordResetTokens(u) = {h.issued}
                 /\ \A t \in PRInputs :
                        VerifyPasswordResetTokenNow(u, t).ret => t = h.issued
                 /\ (h.prev # NoVal /\ h.prev # h.issued) =>
                        /\ ~VerifyPasswordResetTokenNow(u, h.prev).ret
                        /\ VerifyPasswordResetTokenNow(u, h.prev).err = Nil

\* two creates returned different tokens, and the first token was just
\* verified and refused
C6_Witness ==
    \E u \in PRUsers :
        /\ prHist[u].live
        /\ prHist[u].prev # NoVal
        /\ prHist[u].prev # prHist[u].issued
        /\ last.op = "VerifyPasswordResetToken"
        /\ last.user = u
        /\ last.arg = prHist[u].prev
        /\ ~last.ret
        /\ last.err = Nil

\* C7: while the token CreatePasswordResetToken(s) returned is stored,
\* RevokePasswordResetToken(s, v) with a well-formed v other than it fails
\* with "token mismatch" and leaves the store as it was, so that
\* VerifyPasswordResetToken(s, original) returns true afterwards.
C7_MismatchKeepsToken ==
    \A u \in PRUsers :
        prHist[u].live =>
            \A v \in PRWellFormed \ {prHist[u].issued} :
                LET r == RevokePasswordResetTokenNow(u, v)
                    after == VerifyPasswordResetTokenRun(r.db, u,
                                                         prHist[u].issued, {})
                IN  /\ r.err = "token mismatch"
                    /\ r.db = db
                    /\ after.ret
                    /\ after.err = Nil

\* a revoke with another well-formed token has just failed with the mismatch
\* error on a subject whose token is stored
C7_Witness ==
    \E u \in PRUsers :
        /\ prHist[u].live
        /\ last.op = "RevokePasswordResetToken"
        /\ last.user = u
        /\ last.arg \in PRWellFormed \ {prHist[u].issued}
        /\ last.err = "token mismatch"

\* C8: RevokePasswordResetToken(s, v) with a well-formed v fails with "token
\* not found or already revoked" whenever no token is stored for s, changing
\* nothing; after a successful revoke of the token of s, a second revoke of
\* it fails with that error and VerifyPasswordResetToken(s, v) returns false.
C8_RevokeAbsentNotFound ==
    \A u \in PRUsers :
        /\ passwordResetKey(u) \notin DOMAIN db =>
               \A v \in PRWellFormed :
                   LET r == RevokePasswordResetTokenNow(u, v)
                   IN  /\ r.err = "token not found or already revoked"
                       /\ r.db = db
        /\ prHist[u].revoked =>
               /\ RevokePasswordResetTokenNow(u, prHist[u].issued).err =
                      "token not found or already revoked"
               /\ ~VerifyPasswordResetTokenNow(u, prHist[u].issued).ret
               /\ VerifyPasswordResetTokenNow(u, prHist[u].issued).err = Nil

\* the token of a subject was revoked and a second revoke of it has just
\* failed with the not-found error
C8_Witness ==
    \E u \in PRUsers :
        /\ prHist[u].revoked
        /\ last.op = "RevokePasswordResetToken"
        /\ last.user = u
        /\ last.arg = prHist[u].issued
        /\ last.err = "token not found or already revoked"

----------------------------------------------------------------------------
(* Claims on the refresh-token service, under SpecRefresh (every store call
   succeeds) *)

LastRevokeRefreshToken(u) == last.op = "RevokeRefreshToken" /\ last.user = u

\* every key of d other than key is in e with the same value and expiry
OthersUntouched(d, e, key) ==
    \A k \in DOMAIN d \ {key} : k \in DOMAIN e /\ e[k] = d[k]

\* C9: CreateRefreshToken(s) leaves every token the store already holds as it
\* is; every token created for s and neither revoked nor expired verifies
\* true, however many there are; and RevokeRefreshToken of one of two
\* distinct such tokens leaves the other verifying true.
C9_MultiInstance ==
    \A u \in RTUsers :
        /\ \A rnd \in 0..MaxRand :
               LET r == CreateRefreshTokenRun(db, u, rnd, {})
               IN  /\ r.err = Nil
                   /\ OthersUntouched(db, r.db, refreshKey(u, r.val))
                   /\ \A t \in rtHist[u].live :
                          VerifyRefreshTokenRun(r.db, u, t, {}).ret
        /\ \A t \in rtHist[u].live :
               /\ VerifyRefreshTokenRun(db, u, t, {}).ret
               /\ VerifyRefreshTokenRun(db, u, t, {}).err = Nil
        /\ \A t1 \in rtHist[u].live, t2 \in rtHist[u].live :
               t1 # t2 =>
                   LET r == RevokeRefreshTokenRun(db, u, t1, {})
                   IN  /\ r.err = Nil
                       /\ OthersUntouched(db, r.db, refreshKey(u, t1))
                       /\ VerifyRefreshTokenRun(r.db, u, t2, {}).ret
                       /\ ~VerifyRefreshTokenRun(r.db, u, t1, {}).ret

\* two distinct tokens were created for a subject, one of them has just been
\* revoked and the other is still there
C9_Witness ==
    \E u \in RTUsers :
        /\ last.op = "RevokeRefreshToken"
        /\ last.user = u
        /\ last.err = Nil
        /\ last.arg \in rtHist[u].revoked
        /\ rtHist[u].live \ {last.arg} # {}

----------------------------------------------------------------------------
(* Claims on the refresh-token service with two subjects, under
   SpecRefreshSubjects *)

refreshPrefix(userID) == <<redisStoreNameRefreshToken, Itoa(userID)>>

\* C12: RevokeAllUserRefreshTokens(s) returns no error and leaves no key
\* refresh:{s}:* in the store, so that no token verifies true for s (the
\* tokens issued to s included); every other key keeps its value and expiry
\* and every token of another subject verifies as it did before.
C12_RevokeAllUserOnlySubject ==
    \A u \in RTSubjects :
        LET r == RevokeAllUserRefreshTokensRun(db, u, {}, {})
        IN  /\ r.err = Nil
            /\ \A k \in DOMAIN r.db : ~IsPrefix(refreshPrefix(u), k)
            /\ \A t \in RTInputs : ~VerifyRefreshTokenRun(r.db, u, t, {}).ret
            /\ \A k \in DOMAIN db :
                   ~IsPrefix(refreshPrefix(u), k) =>
                       k \in DOMAIN r.db /\ r.db[k] = db[k]
            /\ \A o \in RTSubjects \ {u}, t \in RTInputs :
                   VerifyRefreshTokenRun(r.db, o, t, {}) =
                       [VerifyRefreshTokenRun(db, o, t, {}) EXCEPT !.db = r.db]
            /\ (u \in RTUsers /\ last.op = "RevokeAllUserRefreshTokens"
                   /\ last.user = u) =>
                   /\ last.err = Nil
                   /\ rtHist[u].live = {}
                   /\ \A t \in rtHist[u].revoked :
                          ~VerifyRefreshTokenRun(db, u, t, {}).ret

\* a subject that had tokens has just had them all revoked while another
\* subject holds a token, which still verifies
C12_Witness ==
    \E u \in RTUsers, o \in RTOthers, t \in RTGenerated :
        /\ last.op = "RevokeAllUserRefreshTokens"
        /\ last.user = u
        /\ last.pre
        /\ last.err = Nil
        /\ rtHist[u].revoked # {}
        /\ refreshKey(o, t) \in DOMAIN db
        /\ VerifyRefreshTokenRun(db, o, t, {}).ret

----------------------------------------------------------------------------
(* Claims on both token services, under SpecVerify *)

\* the store outcomes of the GET of a verify: it succeeds, or it fails
VerifyFaults == {{}, {1}}

\* C10: VerifyRefreshToken and VerifyPasswordResetToken leave the store as it
\* is whatever their arguments and whether their GET succeeds or fails; a
\* verify that repeats one that returned true returns true, and would again.
C10_VerifyReadOnly ==
    /\ \A u \in PRUserIDs, t \in PRInputs, F \in VerifyFaults :
           VerifyPasswordResetTokenRun(db, u, t, F).db = db
    /\ \A u \in RTUserIDs, t \in RTInputs, F \in VerifyFaults :
           VerifyRefreshTokenRun(db, u, t, F).db = db
    /\ last.op = "VerifyPasswordResetToken" =>
           /\ last.pre => last.ret
           /\ last.ret => VerifyPasswordResetTokenNow(last.user, last.arg).ret
    /\ last.op = "VerifyRefreshToken" =>
           /\ last.pre => last.ret
           /\ last.ret =>
                  VerifyRefreshTokenRun(db, last.user, last.arg, {}).ret

\* a refresh token has just verified true for the second time in a row, in a
\* store that also holds a password-reset token
C10_Witness ==
    /\ last.op = "VerifyRefreshToken"
    /\ last.pre
    /\ last.ret
    /\ \E u \in PRUsers : prHist[u].live /\ passwordResetKey(u) \in DOMAIN db

----------------------------------------------------------------------------
(* Claims on concurrent creates, under SpecCreateConcurrent *)

\* every caller's call has returned, without error
AllReturned ==
    \A p \in Procs : procs[p].pc = "done" /\ procs[p].err = Nil

\* the values the calls of one operation returned
Returned(op) == {procs[p].val : p \in {q \in Procs : procs[q].op = op}}

\* C13: once concurrent CreateOTP or CreatePasswordResetToken calls for one
\* subject have all returned without error, however their store calls
\* interleaved, exactly one of the values returned by each service verifies
\* true in the state they leave, and each of the others verifies false
\* without error.
C13_ConcurrentCreatesOneLive ==
    AllReturned =>
        /\ \A u \in Users :
               LET vs == Returned("CreateOTP")
               IN  /\ vs # {} =>
                          Cardinality({v \in vs : VerifyOTPRun(db, u, v, {}).ret}) = 1
                   /\ \A v \in vs : VerifyOTPRun(db, u, v, {}).err = Nil
        /\ \A u \in PRUsers :
               LET vs == Returned("CreatePasswordResetToken")
               IN  /\ vs # {} =>
                          Cardinality({v \in vs :
                              VerifyPasswordResetTokenRun(db, u, v, {}).ret}) = 1
                   /\ \A v \in vs :
                          VerifyPasswordResetTokenRun(db, u, v, {}).err = Nil

\* all callers have returned; two of them created different password-reset
\* tokens and one an OTP code
C13_Witness ==
    /\ AllReturned
    /\ Cardinality(Returned("CreatePasswordResetToken")) = 2
    /\ Cardinality(Returned("CreateOTP")) = 1

----------------------------------------------------------------------------
(* Claims on expiry, under SpecExpiry *)

\* the codes of a subject whose hash expired, no CreateOTP having run since
ExpiredOTPs(u) ==
    {c \in GeneratedOTPs :
        \E e \in expired : e.key = otpKey(u) /\ CheckHash(c, e.val)}

\* the password-reset tokens of a subject that expired, no create since
ExpiredPasswordResetTokens(u) ==
    {e.val : e \in {x \in expired : x.key = passwordResetKey(u)}}

\* the refresh tokens of a subject that expired and were not created again
ExpiredRefreshTokens(u) ==
    {t \in RTGenerated : \E e \in expired : e.key = refreshKey(u, t)}

\* the failed tries the store counts for a subject
Attempts(d, u) ==
    IF otpAttemptsKey(u) \in DOMAIN d THEN Atoi(d[otpAttemptsKey(u)].val).n
    ELSE 0

\* the token services' part of the expiry claim: an expired token verifies
\* (false, nil), and a token verifies (false, nil) once its TTL has elapsed
\* since its create
TokensExpire ==
    /\ \A u \in PRUsers :
           /\ \A t \in ExpiredPasswordResetTokens(u) :
                  /\ ~VerifyPasswordResetTokenRun(db, u, t, {}).ret
                  /\ VerifyPasswordResetTokenRun(db, u, t, {}).err = Nil
           /\ \A rnd \in 0..MaxRand :
                  LET r == CreatePasswordResetTokenRun(db, u, rnd, {})
                      d == RedisTickN(r.db, PasswordResetTTL)
                      early == RedisTickN(r.db, PasswordResetTTL - 1)
                  IN  /\ VerifyPasswordResetTokenRun(early, u, r.val, {}).ret
                      /\ ~VerifyPasswordResetTokenRun(d, u, r.val, {}).ret
                      /\ VerifyPasswordResetTokenRun(d, u, r.val, {}).err = Nil
    /\ \A u \in RTUsers :
           /\ \A t \in ExpiredRefreshTokens(u) :
                  /\ ~VerifyRefreshTokenRun(db, u, t, {}).ret
                  /\ VerifyRefreshTokenRun(db, u, t, {}).err = Nil
           /\ \A rnd \in 0..MaxRand :
                  LET r == CreateRefreshTokenRun(db, u, rnd, {})
                      d == RedisTickN(r.db, RefreshTokenTTL)
                      early == RedisTickN(r.db, RefreshTokenTTL - 1)
                  IN  /\ VerifyRefreshTokenRun(early, u, r.val, {}).ret
                      /\ ~VerifyRefreshTokenRun(d, u, r.val, {}).ret
                      /\ VerifyRefreshTokenRun(d, u, r.val, {}).err = Nil

\* the part of the expiry claim on the attempts counter: the hash and the
\* counter a CreateOTP wrote expire together (a counter found after the
\* expiry of the code was started at 1 by a later failed verify), and a
\* CreateOTP after the expiry sets the counter to 0
CounterExpires ==
    \A u \in Users :
        /\ otpKey(u) \in DOMAIN db =>
               /\ otpAttemptsKey(u) \in DOMAIN db
               /\ db[otpAttemptsKey(u)].ttl = db[otpKey(u)].ttl
        /\ (ExpiredOTPs(u) # {} /\ otpAttemptsKey(u) \in DOMAIN db) =>
               Attempts(db, u) >= 1
        /\ \A rnd \in 0..MaxRand :
               LET r == CreateOTPRun(db, u, rnd, {})
                   d == RedisTickN(r.db, OTPTTL)
                   early == RedisTickN(r.db, OTPTTL - 1)
                   again == CreateOTPRun(d, u, rnd, {})
               IN  /\ VerifyOTPRun(early, u, r.val, {}).ret
                   /\ otpKey(u) \notin DOMAIN d
                   /\ otpAttemptsKey(u) \notin DOMAIN d
                   /\ ~VerifyOTPRun(d, u, r.val, {}).ret
                   /\ VerifyOTPRun(d, u, r.val, {}).err = Nil
                   /\ Attempts(again.db, u) = 0
                   /\ otpAttemptsKey(u) \in DOMAIN again.db
                   /\ VerifyOTPRun(again.db, u, again.val, {}).ret

----------------------------------------------------------------------------
(* Claims on concurrent verifies, under SpecVerifyConcurrent *)

\* C15 as stated: for one created code, at most 5 VerifyOTP calls compare
\* their code with the stored hash, for every interleaving of concurrent
\* VerifyOTP calls and even when the increments of the counter fail.
C15_Original == tally.compared <= maxAttempts

\* C16 as stated: of the concurrent VerifyOTP calls that submit the code of
\* one CreateOTP, at most one returns true, for every interleaving.
C16_Original == tally.trues <= 1

-----------------------------------------------------------------------------
(* Validation of the inputs *)

\* subjects the integer-keyed services reject (userID <= 0)
InvalidUserIDs == {-1, 0}

\* every store call of a handler fails
AllFaults == 1..8

\* the errors of the input checks
ValidationErrors == {"invalid user id", "invalid otp", "empty token",
                     "token too long"}

\* calls with valid and invalid inputs on a store that holds credentials of
\* the three services, with all store calls working or all failing
Faults == {{}, AllFaults}

NextValidation ==
    \/ \E userID \in UserIDs, F \in Faults :
          CreateOTP(userID, 0, F) /\ Sequential
    \/ \E userID \in UserIDs, otp \in {WrongOTP} \cup MalformedOTPs, F \in Faults :
          VerifyOTP(userID, otp, F) /\ Sequential
    \/ \E userID \in UserIDs \ Users, F \in Faults :
          RevokeOTP(userID, F) /\ Sequential
    \/ \E userID \in PRUserIDs, F \in Faults :
          CreatePasswordResetToken(userID, 0, F) /\ Sequential
    \/ \E userID \in PRUserIDs, token \in PRMalformed, F \in Faults :
          VerifyPasswordResetToken(userID, token, F) /\ Sequential
    \/ \E userID \in PRUserIDs, token \in PRMalformed, F \in Faults :
          RevokePasswordResetToken(userID, token, F) /\ Sequential
    \/ \E userID \in RTUserIDs, F \in Faults :
          CreateRefreshToken(userID, 0, F) /\ Sequential
    \/ \E userID \in RTUserIDs, token \in RTMalformed, F \in Faults :
          VerifyRefreshToken(userID, token, F) /\ Sequential
    \/ \E userID \in RTUserIDs, token \in RTMalformed, F \in Faults :
          RevokeRefreshToken(token, userID, F) /\ Sequential
    \/ \E userID \in RTUserIDs \ RTUsers, F \in Faults :
          RevokeAllUserRefreshTokens(userID, F, {}) /\ Sequential

SpecValidation == Init /\ [][NextValidation]_vars

\* a call returns a validation error and makes no store call: run with every
\* store call failing, with every store call working and on the empty store,
\* it returns the same validation error and leaves the store as it is
NoStoreAccess(d, failing, working, onEmpty) ==
    /\ failing.err \in ValidationErrors
    /\ failing.db = d
    /\ working.err = failing.err
    /\ working.db = d
    /\ onEmpty.err = failing.err
    /\ onEmpty.db = <<>>

\* the operations that take a subject only, called with an invalid subject
InvalidSubjectRejected ==
    /\ \A userID \in InvalidUserIDs, rnd \in 0..MaxRand :
          /\ NoStoreAccess(db, CreateOTPRun(db, userID, rnd, AllFaults),
                           CreateOTPRun(db, userID, rnd, {}),
                           CreateOTPRun(<<>>, userID, rnd, {}))
          /\ NoStoreAccess(db, CreateRefreshTokenRun(db, userID, rnd, AllFaults),
                           CreateRefreshTokenRun(db, userID, rnd, {}),
                           CreateRefreshTokenRun(<<>>, userID, rnd, {}))
    /\ \A userID \in InvalidUserIDs :
          /\ NoStoreAccess(db, RevokeOTPRun(db, userID, AllFaults, 1),
                           RevokeOTPRun(db, userID, {}, 1),
                           RevokeOTPRun(<<>>, userID, {}, 1))
          /\ NoStoreAccess(db,
                 RevokeAllUserRefreshTokensRun(db, userID, AllFaults, {}),
                 RevokeAllUserRefreshTokensRun(db, userID, {}, {}),
                 RevokeAllUserRefreshTokensRun(<<>>, userID, {}, {}))
    /\ \A userID \in PRUserIDs \ PRUsers, rnd \in 0..MaxRand :
          NoStoreAccess(db, CreatePasswordResetTokenRun(db, userID, rnd, AllFaults),
                        CreatePasswordResetTokenRun(db, userID, rnd, {}),
                        CreatePasswordResetTokenRun(<<>>, userID, rnd, {}))

\* the operations that take a subject and a token or a code, called with an
\* invalid subject or a malformed token or code
InvalidTokenRejected ==
    /\ \A userID \in InvalidUserIDs \cup Users, otp \in OTPInputs :
          (userID \in InvalidUserIDs \/ otp \in MalformedOTPs) =>
             NoStoreAccess(db, VerifyOTPRun(db, userID, otp, AllFaults),
                           VerifyOTPRun(db, userID, otp, {}),
                           VerifyOTPRun(<<>>, userID, otp, {}))
    /\ \A userID \in PRUserIDs, token \in PRInputs :
          (userID \notin PRUsers \/ token \in PRMalformed) =>
             /\ NoStoreAccess(db,
                    VerifyPasswordResetTokenRun(db, userID, token, AllFaults),
                    VerifyPasswordResetTokenRun(db, userID, token, {}),
                    VerifyPasswordResetTokenRun(<<>>, userID, token, {}))
             /\ NoStoreAccess(db,
                    RevokePasswordResetTokenRun(db, userID, token, AllFaults),
                    RevokePasswordResetTokenRun(db, userID, token, {}),
                    RevokePasswordResetTokenRun(<<>>, userID, token, {}))
    /\ \A userID \in InvalidUserIDs \cup RTUsers, token \in RTInputs :
          (userID \in InvalidUserIDs \/ token \in RTMalformed) =>
             /\ NoStoreAccess(db,
                    VerifyRefreshTokenRun(db, userID, token, AllFaults),
                    VerifyRefreshTokenRun(db, userID, token, {}),
                    VerifyRefreshTokenRun(<<>>, userID, token, {}))
             /\ NoStoreAccess(db,
                    RevokeRefreshTokenRun(db, userID, token, AllFaults),
                    RevokeRefreshTokenRun(db, userID, token, {}),
                    RevokeRefreshTokenRun(<<>>, userID, token, {}))

\* C17: every operation of the three services that takes a subject, a token
\* or a code, called with an invalid subject, with a malformed token (empty
\* or longer than the maximum) or with a malformed OTP code (not exactly 6
\* digits), returns a validation error without any store read or write; a
\* malformed OTP code leaves the attempts counter as it is.
C17_ValidationBeforeStore ==
    /\ InvalidSubjectRejected
    /\ InvalidTokenRejected
    /\ \A userID \in Users, otp \in MalformedOTPs :
          Attempts(VerifyOTPRun(db, userID, otp, {}).db, userID)
             = Attempts(db, userID)

\* C17 witness: a malformed code was just submitted for a subject whose code
\* is stored and whose counter has counted a wrong guess, and the call
\* returned "invalid otp"; the store also holds tokens of the token services
C17_Witness ==
    /\ last.op = "VerifyOTP"
    /\ last.user \in Users
    /\ last.arg \in MalformedOTPs
    /\ last.err = "invalid otp"
    /\ otpKey(last.user) \in DOMAIN db
    /\ Attempts(db, last.user) = 1
    /\ \E u \in PRUsers : passwordResetKey(u) \in DOMAIN db
    /\ \E k \in DOMAIN db : IsPrefix(<<redisStoreNameRefreshToken>>, k)

-----------------------------------------------------------------------------
(* Failed verifications *)

\* credentials of the three services are created, tried, revoked and left to
\* expire (one token value stands for the tokens of each token service)
NextFailedVerify ==
    \/ \E userID \in Users :
          CreateOTP(userID, 0, {}) /\ Sequential
    \/ \E userID \in Users, otp \in {GenerateOTP(0), WrongOTP} :
          VerifyOTP(userID, otp, {}) /\ Sequential
    \/ \E userID \in Users :
          RevokeOTP(userID, {}) /\ Sequential
    \/ \E userID \in PRUsers :
          CreatePasswordResetToken(userID, 0, {}) /\ Sequential
    \/ \E userID \in PRUsers :
          RevokePasswordResetToken(userID, GenerateRandomString(passwordResetTokenMaxLength, 0), {})
             /\ Sequential
    \/ \E userID \in RTUsers :
          CreateRefreshToken(userID, 0, {}) /\ Sequential
    \/ \E userID \in RTUsers :
          RevokeRefreshToken(GenerateRandomString(refreshTokenMaxLength, 0), userID, {})
             /\ Sequential
    \/ Tick /\ Sequential

SpecFailedVerify == Init /\ [][NextFailedVerify]_vars

\* the presented value is not the active credential of the subject: the
\* subject has none (never created, expired, revoked or consumed) or has
\* another one
NotTheOTP(d, userID, otp) ==
    otpKey(userID) \notin DOMAIN d \/ ~CheckHash(otp, d[otpKey(userID)].val)
NotThePasswordResetToken(d, userID, token) ==
    passwordResetKey(userID) \notin DOMAIN d
        \/ d[passwordResetKey(userID)].val # token
NotTheRefreshToken(d, userID, token) ==
    refreshKey(userID, token) \notin DOMAIN d

\* what the caller of a verify sees
Verdict(r) == [ret |-> r.ret, err |-> r.err]
FalseNoError == [ret |-> FALSE, err |-> Nil]

\* the token services' part of the claim: a well-formed token that is not an
\* active token of the subject verifies (false, nil)
TokensFailAlike ==
    /\ \A userID \in PRUsers, token \in PRWellFormed :
          NotThePasswordResetToken(db, userID, token) =>
             Verdict(VerifyPasswordResetTokenRun(db, userID, token, {}))
                = FalseNoError
    /\ \A userID \in RTUsers, token \in RTWellFormed :
          NotTheRefreshToken(db, userID, token) =>
             Verdict(VerifyRefreshTokenRun(db, userID, token, {})) = FalseNoError

\* C18 as stated: a well-formed value that is not the active credential of
\* the subject verifies (false, nil) in the three services, whether the
\* credential is wrong, expired, revoked, consumed or was never created.
C18_Original ==
    /\ TokensFailAlike
    /\ \A userID \in Users, otp \in WellFormedOTPs :
          NotTheOTP(db, userID, otp) =>
             Verdict(VerifyOTPRun(db, userID, otp, {})) = FalseNoError

\* C18 amended: as C18, except that VerifyOTP for a subject whose attempts
\* counter has reached 5 returns the error "max attempts exceeded"; in both
\* cases the verdict is the one the call returns when the subject has no code.
C18_FailuresIndistinguishable ==
    /\ TokensFailAlike
    /\ \A userID \in Users, otp \in WellFormedOTPs :
          NotTheOTP(db, userID, otp) =>
             /\ Verdict(VerifyOTPRun(db, userID, otp, {}))
                   = IF Attempts(db, userID) >= maxAttempts
                     THEN [ret |-> FALSE, err |-> "max attempts exceeded"]
                     ELSE FalseNoError
             /\ Verdict(VerifyOTPRun(db, userID, otp, {}))
                   = Verdict(VerifyOTPRun(RedisDel(db, otpKey(userID)),
                                          userID, otp, {}))

\* C18 witness: a wrong code was just tried against an active code and
\* answered (false, nil), while the password-reset token and the refresh
\* token of the subjects have expired or were revoked
C18_Witness ==
    /\ last.op = "VerifyOTP"
    /\ last.arg = WrongOTP
    /\ Verdict(last) = FalseNoError
    /\ otpKey(last.user) \in DOMAIN db
    /\ \E userID \in PRUsers :
          /\ prHist[userID].issued # NoVal
          /\ passwordResetKey(userID) \notin DOMAIN db
    /\ \E userID \in RTUsers :
          /\ rtHist[userID].revoked # {}
          /\ rtHist[userID].live = {}

-----------------------------------------------------------------------------
(* Access tokens (JWT, HS256): stateless, nothing is stored *)

MaxClock == 8

\* jwt.WithLeeway(5*time.Second)
leeway == 5

\* the configuration the service is built with
Config == [Issuer |-> "test_auth.com", JWTSecret |-> "pass0rdHidden_",
           JWTExpiry |-> <<"2", "s">>]

\* the principals handed to CreateAccessToken; nothing checks their fields
AuthUsers == {[ID |-> "3", Email |-> "mister@mail.com"],
              [ID |-> "", Email |-> ""]}

\* time.ParseDuration of an optional sign and a decimal number followed by
\* one of the units s, m and h ("0" needs no unit), in seconds: [d, err]
ParseDuration(s) ==
    LET signed == Len(s) >= 1 /\ s[1] \in {"-", "+"}
        body == IF signed THEN Tail(s) ELSE s
        sign == IF signed /\ s[1] = "-" THEN -1 ELSE 1
    IN  IF body = <<"0">> THEN [d |-> 0, err |-> Nil]
        ELSE IF Len(body) < 2 \/ body[Len(body)] \notin {"s", "m", "h"}
                  \/ Atoi(SubSeq(body, 1, Len(body) - 1)).err # Nil
        THEN [d |-> 0, err |-> "invalid duration"]
        ELSE [d |-> sign * Atoi(SubSeq(body, 1, Len(body) - 1)).n
                       * (CASE body[Len(body)] = "s" -> 1
                            [] body[Len(body)] = "m" -> 60
                            [] body[Len(body)] = "h" -> 3600),
              err |-> Nil]

\* the errors of jwt.ParseWithClaims
ErrTokenMalformed == "token is malformed"
ErrTokenUnverifiable == "token is unverifiable"
ErrTokenSignatureInvalid == "token signature is invalid"
ErrTokenExpired == "token is expired"
ErrTokenNotValidYet == "token is not valid yet"

\* model.Claim; a date that is not set is -1
Claim(keyType, email, exp, iat, nbf, iss, sub, jti) ==
    [KeyType |-> keyType, Email |-> email, ExpiresAt |-> exp,
     IssuedAt |-> iat, NotBefore |-> nbf, Issuer |-> iss, Subject |-> sub,
     ID |-> jti]
ZeroClaim == Claim("", "", -1, -1, -1, "", "", "")

\* the JSON of a claim: a sequence of <<name, value>>, a string s as
\* <<"str", s>> and a date as <<"num">> followed by its decimal digits; the
\* registered claims are omitted when empty
String(name, s) == <<<<name, <<"str", s>>>>>>
OmitEmpty(name, s) == IF s = "" THEN <<>> ELSE String(name, s)
Date(name, t) == IF t < 0 THEN <<>> ELSE <<<<name, <<"num">> \o Itoa(t)>>>>
Marshal(c) ==
    String("key_type", c.KeyType) \o String("email", c.Email)
        \o OmitEmpty("iss", c.Issuer) \o OmitEmpty("sub", c.Subject)
        \o Date("exp", c.ExpiresAt) \o Date("nbf", c.NotBefore)
        \o Date("iat", c.IssuedAt) \o OmitEmpty("jti", c.ID)

\* reading the JSON back: a field that is absent keeps its zero value, a
\* string field must hold a string and a date field a number
Has(json, name) == \E i \in 1..Len(json) : json[i][1] = name
Field(json, name) == json[CHOOSE i \in 1..Len(json) : json[i][1] = name][2]
StringField(json, name) ==
    IF Has(json, name) THEN Field(json, name)[2] ELSE ""
DateField(json, name) ==
    IF Has(json, name) THEN Atoi(Tail(Field(json, name))).n ELSE -1
WellTyped(json) ==
    \A i \in 1..Len(json) :
        /\ Len(json[i]) = 2
        /\ Len(json[i][2]) >= 1
        /\ json[i][1] \in {"exp", "nbf", "iat"}
              => json[i][2][1] = "num" /\ Atoi(Tail(json[i][2])).err = Nil
        /\ json[i][1] \in {"alg", "typ", "key_type", "email", "iss", "sub", "jti"}
              => json[i][2][1] = "str" /\ Len(json[i][2]) = 2
Unmarshal(json) ==
    Claim(StringField(json, "key_type"), StringField(json, "email"),
          DateField(json, "exp"), DateField(json, "iat"),
          DateField(json, "nbf"), StringField(json, "iss"),
          StringField(json, "sub"), StringField(json, "jti"))

\* a token is header.payload.signature; the HMAC of a text under a key is
\* opaque and equal for equal texts and keys only
Header(alg) == <<<<"alg", <<"str", alg>>>>, <<"typ", <<"str", "JWT">>>>>>
Sign(alg, key, text) == <<alg, key, text>>
SignedString(alg, key, claim) ==
    <<Header(alg), Marshal(claim),
      Sign(alg, key, <<Header(alg), Marshal(claim)>>)>>

\* uuid.New().String()
UUID(n) == IF n = 0 THEN "uuid-0" ELSE IF n = 1 THEN "uuid-1" ELSE "uuid-n"

\* CreateAccessToken that sets no expiry
CreateAccessTokenRun_NoExpiry(config, user, now, n) ==
    LET duration == ParseDuration(config.JWTExpiry)
    IN  IF duration.err # Nil THEN [token |-> <<>>, err |-> duration.err]
        ELSE [token |-> SignedString("HS256", config.JWTSecret,
                            Claim("access", user.Email, -1, now,
                                  now, config.Issuer, user.ID, UUID(n))),
              err |-> Nil]

\* CreateAccessToken as it was before the subject became the principal's ID
CreateAccessTokenRun_SubjectEmail(config, user, now, n) ==
    LET duration == ParseDuration(config.JWTExpiry)
    IN  IF duration.err # Nil THEN [token |-> <<>>, err |-> duration.err]
        ELSE [token |-> SignedString("HS256", config.JWTSecret,
                            Claim("access", user.Email, now + duration.d, now,
                                  now, config.Issuer, user.Email, UUID(n))),
              err |-> Nil]

\* CreateAccessToken at the time now, n the random UUID: [token, err]
CreateAccessTokenRun(config, user, now, n) ==
    LET duration == ParseDuration(config.JWTExpiry)
    IN  IF duration.err # Nil THEN [token |-> <<>>, err |-> duration.err]
        ELSE [token |-> SignedString("HS256", config.JWTSecret,
                            Claim("access", user.Email, now + duration.d, now,
                                  now, config.Issuer, user.ID, UUID(n))),
              err |-> Nil]

\* the result of VerifyAccessToken: some tells whether the claim is non-nil
Verified(some, claim, err) == [some |-> some, claim |-> claim, err |-> err]

\* VerifyAccessToken that allows no clock skew on the expiry
VerifyAccessTokenRun_NoLeeway(config, token, now) ==
    IF Len(token) # 3 THEN Verified(FALSE, ZeroClaim, ErrTokenMalformed)
    ELSE IF ~WellTyped(token[1]) \/ ~WellTyped(token[2])
    THEN Verified(FALSE, ZeroClaim, ErrTokenMalformed)
    ELSE IF StringField(token[1], "alg") # "HS256"
    THEN Verified(FALSE, ZeroClaim, ErrTokenUnverifiable)
    ELSE IF token[3] # Sign("HS256", config.JWTSecret, <<token[1], token[2]>>)
    THEN Verified(FALSE, ZeroClaim, ErrTokenSignatureInvalid)
    ELSE LET claim == Unmarshal(token[2])
         IN  IF claim.ExpiresAt >= 0 /\ ~(now < claim.ExpiresAt)
             THEN Verified(TRUE, claim, ErrTokenExpired)
             ELSE IF claim.NotBefore >= 0 /\ now < claim.NotBefore - leeway
             THEN Verified(FALSE, ZeroClaim, ErrTokenNotValidYet)
             ELSE Verified(TRUE, claim, Nil)

\* VerifyAccessToken that returns no claim with the Expired error
VerifyAccessTokenRun_DropsClaim(config, token, now) ==
    IF Len(token) # 3 THEN Verified(FALSE, ZeroClaim, ErrTokenMalformed)
    ELSE IF ~WellTyped(token[1]) \/ ~WellTyped(token[2])
    THEN Verified(FALSE, ZeroClaim, ErrTokenMalformed)
    ELSE IF StringField(token[1], "alg") # "HS256"
    THEN Verified(FALSE, ZeroClaim, ErrTokenUnverifiable)
    ELSE IF token[3] # Sign("HS256", config.JWTSecret, <<token[1], token[2]>>)
    THEN Verified(FALSE, ZeroClaim, ErrTokenSignatureInvalid)
    ELSE LET claim == Unmarshal(token[2])
         IN  IF claim.ExpiresAt >= 0 /\ ~(now < claim.ExpiresAt + leeway)
             THEN Verified(FALSE, ZeroClaim, ErrTokenExpired)
             ELSE IF claim.NotBefore >= 0 /\ now < claim.NotBefore - leeway
             THEN Verified(FALSE, ZeroClaim, ErrTokenNotValidYet)
             ELSE Verified(TRUE, claim, Nil)

\* VerifyAccessToken at the time now. jwt.ParseWithClaims splits the token,
\* decodes the header and the claims, looks the signing method up, checks the
\* signature under the configured secret and then validates the dates with
\* the leeway; an expired token comes back with its claims
VerifyAccessTokenRun(config, token, now) ==
    IF Len(token) # 3 THEN Verified(FALSE, ZeroClaim, ErrTokenMalformed)
    ELSE IF ~WellTyped(token[1]) \/ ~WellTyped(token[2])
    THEN Verified(FALSE, ZeroClaim, ErrTokenMalformed)
    ELSE IF StringField(token[1], "alg") # "HS256"
    THEN Verified(FALSE, ZeroClaim, ErrTokenUnverifiable)
    ELSE IF token[3] # Sign("HS256", config.JWTSecret, <<token[1], token[2]>>)
    THEN Verified(FALSE, ZeroClaim, ErrTokenSignatureInvalid)
    ELSE LET claim == Unmarshal(token[2])
         IN  IF claim.ExpiresAt >= 0 /\ ~(now < claim.ExpiresAt + leeway)
             THEN Verified(TRUE, claim, ErrTokenExpired)
             ELSE IF claim.NotBefore >= 0 /\ now < claim.NotBefore - leeway
             THEN Verified(FALSE, ZeroClaim, ErrTokenNotValidYet)
             ELSE Verified(TRUE, claim, Nil)

\* the tokens presented to VerifyAccessToken that the service did not issue,
\* made of an issued token: signed under another secret, with a later expiry
\* or another subject under the issued signature, unsigned ("none"), cut to
\* two segments, with a claim of the wrong type; and a string of one segment
Forged(token) ==
    LET claim == Unmarshal(token[2])
    IN  {<<token[1], token[2],
           Sign("HS256", "an0therSecret_", <<token[1], token[2]>>)>>,
         <<token[1], Marshal([claim EXCEPT !.ExpiresAt = @ + 100]), token[3]>>,
         <<token[1], Marshal([claim EXCEPT !.Subject = "admin"]), token[3]>>,
         <<Header("none"), token[2], <<>>>>}
Malformed(token) ==
    {<<token[1], token[2]>>,
     <<token[1], <<<<"exp", <<"str", "soon">>>>>>, token[3]>>,
     <<<<"bad_token">>>>}

\* what is kept of an issued token
Issued(token, user, at) == [token |-> token, user |-> user, at |-> at]
\* the time CreateAccessToken gives the token to live until
Expiry(t) == t.at + ParseDuration(Config.JWTExpiry).d

CreateAccessToken(user, n) ==
    LET r == CreateAccessTokenRun(Config, user, clock, n)
    IN  /\ last' = Call("CreateAccessToken", 0, NoVal, -1, FALSE, r.token, r.err)
        /\ accessTokens' = IF r.err = Nil THEN {Issued(r.token, user, clock)}
                           ELSE accessTokens
        /\ UNCHANGED <<db, otpHist, prHist, rtHist, procs, tally, expired, clock>>

VerifyAccessToken(token) ==
    LET r == VerifyAccessTokenRun(Config, token, clock)
    IN  /\ last' = Call("VerifyAccessToken", 0, token, -1, r.some, r.claim, r.err)
        /\ UNCHANGED <<db, otpHist, prHist, rtHist, procs, tally, expired, clock,
                       accessTokens>>

\* a second passes
Elapse ==
    /\ clock < MaxClock
    /\ clock' = clock + 1
    /\ last' = Call("Elapse", 0, NoVal, -1, FALSE, NoVal, Nil)
    /\ UNCHANGED <<db, otpHist, prHist, rtHist, procs, tally, expired,
                   accessTokens>>

NextAccess ==
    \/ \E user \in AuthUsers, n \in 0..MaxRand : CreateAccessToken(user, n)
    \/ \E t \in accessTokens : VerifyAccessToken(t.token)
    \/ \E t \in accessTokens :
          \E token \in Forged(t.token) \cup Malformed(t.token) :
             VerifyAccessToken(token)
    \/ Elapse

SpecAccess == Init /\ [][NextAccess]_vars

InvalidRejected ==
    \A t \in accessTokens :
        \A token \in Forged(t.token) \cup Malformed(t.token) :
            LET r == VerifyAccessTokenRun(Config, token, clock)
            IN  /\ ~r.some
                /\ r.claim = ZeroClaim
                /\ r.err \notin {Nil, ErrTokenExpired}

\* C20 as stated: VerifyAccessToken of a correctly signed token whose expiry
\* has passed returns its claims, with the original subject, and the Expired
\* error; any other validation failure returns no claims and an error.
C20_Original ==
    /\ \A t \in accessTokens :
          clock >= Expiry(t) =>
              LET r == VerifyAccessTokenRun(Config, t.token, clock)
              IN  /\ r.some
                  /\ r.claim.Subject = t.user.ID
                  /\ r.err = ErrTokenExpired
    /\ InvalidRejected

\* C20 amended: as C20 for a token whose expiry has passed by the leeway of 5
\* seconds or more.
C20_ExpiredKeepsClaims ==
    /\ \A t \in accessTokens :
          clock >= Expiry(t) + leeway =>
              LET r == VerifyAccessTokenRun(Config, t.token, clock)
              IN  /\ r.some
                  /\ r.claim.Subject = t.user.ID
                  /\ r.err = ErrTokenExpired
    /\ InvalidRejected

\* C20 witness: the token of the principal "3" was verified once its expiry
\* had passed by the leeway, and came back with its claims and the Expired
\* error
C20_Witness ==
    /\ last.op = "VerifyAccessToken"
    /\ last.err = ErrTokenExpired
    /\ last.ret
    /\ \E t \in accessTokens :
          /\ last.arg = t.token
          /\ t.user.ID = "3"
          /\ last.val.Subject = "3"
          /\ clock >= Expiry(t) + leeway

-----------------------------------------------------------------------------
(* The access-token service configured with an expiry of one second *)

ExpiredTestConfig == [Config EXCEPT !.JWTExpiry = <<"1", "s">>]

CreateAccessTokenWith(config, user, n) ==
    LET r == CreateAccessTokenRun(config, user, clock, n)
    IN  /\ last' = Call("CreateAccessToken", 0, NoVal, -1, FALSE, r.token, r.err)
        /\ accessTokens' = IF r.err = Nil THEN {Issued(r.token, user, clock)}
                           ELSE accessTokens
        /\ UNCHANGED <<db, otpHist, prHist, rtHist, procs, tally, expired, clock>>

VerifyAccessTokenWith(config, token) ==
    LET r == VerifyAccessTokenRun(config, token, clock)
    IN  /\ last' = Call("VerifyAccessToken", 0, token, clock, r.some, r.claim, r.err)
        /\ UNCHANGED <<db, otpHist, prHist, rtHist, procs, tally, expired, clock,
                       accessTokens>>

NextAccessExpired ==
    \/ \E user \in AuthUsers, n \in 0..MaxRand :
          CreateAccessTokenWith(ExpiredTestConfig, user, n)
    \/ \E t \in accessTokens : VerifyAccessTokenWith(ExpiredTestConfig, t.token)
    \/ Elapse

SpecAccessExpired == Init /\ [][NextAccessExpired]_vars

\* what VerifyAccessToken returns for the issued token t, waited seconds
\* after its creation: its claims, with the subject of its principal, and
\* the Expired error
ExpiredAfter(t, waited) ==
    LET r == VerifyAccessTokenRun(ExpiredTestConfig, t.token, t.at + waited)
    IN  /\ r.some
        /\ r.err = ErrTokenExpired
        /\ r.claim.Subject = t.user.ID

\* C21 as stated: a token issued with a 1-second expiry and verified 2
\* seconds after its issue yields its claims and the Expired error, the
\* subject of the claims being the principal's.
C21_Original ==
    \A t \in accessTokens : clock = t.at + 2 => ExpiredAfter(t, clock - t.at)

\* C21 amended: the same for a token verified 6 seconds after its issue
\* (the expiry of 1 second and the leeway of 5 seconds).
C21_ExpiredExample ==
    \A t \in accessTokens : clock = t.at + 6 => ExpiredAfter(t, clock - t.at)

\* C21 witness: the token of the principal "3" was verified 6 seconds after
\* its issue and came back with its claims and the Expired error
C21_Witness ==
    /\ last.op = "VerifyAccessToken"
    /\ last.err = ErrTokenExpired
    /\ last.ret
    /\ last.pre = clock
    /\ \E t \in accessTokens :
          /\ last.arg = t.token
          /\ t.user.ID = "3"
          /\ last.val.Subject = "3"
          /\ clock = t.at + 6

-----------------------------------------------------------------------------
(* CreateOTP while store calls fail *)

\* the store calls of CreateOTP: 1 SET of the hash, 2 SET of the counter
\* (resetAttempts), 3 DEL of the hash (rollback); each may fail
CreateFaults == SUBSET {1, 2, 3}

NextCreateFaults ==
    \/ \E userID \in Users, rnd \in 0..MaxRand, F \in CreateFaults :
          CreateOTP(userID, rnd, F) /\ Sequential
    \/ \E userID \in Users, otp \in WellFormedOTPs :
          VerifyOTP(userID, otp, {}) /\ Sequential
    \/ Tick /\ Sequential

SpecCreateFaults == Init /\ [][NextCreateFaults]_vars

\* C22 as stated: when the reset of the attempts counter fails after the
\* hash was written, CreateOTP returns an error and no code, and no code hash
\* of the subject remains in the store.
C22_Original ==
    (last.op = "CreateOTP" /\ last.err = "failed to reset attempts counter")
        => /\ last.val = NoVal
           /\ otpKey(last.user) \notin DOMAIN db

-----------------------------------------------------------------------------
(* Cancellation of the caller's context *)

\* the context is cancelled (or its deadline passes) before store call k of
\* an operation: that call and every later one fail with the context's error
Cancelled(k) == {n \in AllFaults : n >= k}

\* the store calls VerifyOTP makes when none fails: the GET of the counter
\* only when the subject is locked or the counter unreadable, else the two
\* GETs and the two calls of incrementAttempts or of RevokeOTP
VerifyOTPCalls(d, userID, otp) ==
    IF VerifyOTPRun(d, userID, otp, {}).err # Nil THEN 1 ELSE 4

NextCancel ==
    \/ \E userID \in Users, rnd \in 0..MaxRand, k \in 1..3 :
          CreateOTP(userID, rnd, Cancelled(k)) /\ Sequential
    \/ \E userID \in Users, otp \in WellFormedOTPs, k \in 1..5 :
          VerifyOTP(userID, otp, Cancelled(k)) /\ Sequential
    \/ \E userID \in Users, k \in 1..3 :
          RevokeOTP(userID, Cancelled(k)) /\ Sequential
    \/ Tick /\ Sequential

SpecCancel == Init /\ [][NextCancel]_vars

\* C23 as stated: an operation whose context is cancelled before or during
\* one of its store calls returns an error, not a normal result (here the
\* operations of the OTP service on a valid subject, the attempt increment of
\* VerifyOTP and the verifies of the two token services included).
C23_Original ==
    /\ \A userID \in Users, rnd \in 0..MaxRand, k \in 1..2 :
          CreateOTPRun(db, userID, rnd, Cancelled(k)).err # Nil
    /\ \A userID \in Users, otp \in WellFormedOTPs :
          \A k \in 1..VerifyOTPCalls(db, userID, otp) :
              VerifyOTPRun(db, userID, otp, Cancelled(k)).err # Nil
    /\ \A userID \in Users, k \in 1..2 :
          RevokeOTPRun(db, userID, Cancelled(k), 1).err # Nil
    /\ \A userID \in PRUsers, token \in PRWellFormed :
          VerifyPasswordResetTokenRun(db, userID, token, Cancelled(1)).err # Nil
    /\ \A userID \in RTUsers, token \in RTWellFormed :
          VerifyRefreshTokenRun(db, userID, token, Cancelled(1)).err # Nil

-----------------------------------------------------------------------------
(* RevokeOTP and RevokeAllOTPs *)

\* the store d without the two OTP keys of the subject
WithoutOTP(d, userID) ==
    [k \in DOMAIN d \ {otpKey(userID), otpAttemptsKey(userID)} |-> d[k]]

\* C24: RevokeOTP(s) returns no error whether or not s has a code, deletes
\* the code key and the attempts counter of s and nothing else, and a second
\* RevokeOTP(s) returns no error and changes nothing; afterwards VerifyOTP of
\* any well-formed code returns (false, nil), and the code of a fresh
\* CreateOTP(s) verifies, whatever the failed attempts before.
C24_RevokeOTP ==
    \A userID \in Users :
        LET r == RevokeOTPRun(db, userID, {}, 1)
        IN  /\ r.err = Nil
            /\ r.db = WithoutOTP(db, userID)
            /\ RevokeOTPRun(r.db, userID, {}, 1) = r
            /\ \A otp \in WellFormedOTPs :
                  Verdict(VerifyOTPRun(r.db, userID, otp, {})) = FalseNoError
            /\ \A rnd \in 0..MaxRand :
                  LET c == CreateOTPRun(r.db, userID, rnd, {})
                  IN  /\ c.err = Nil
                      /\ VerifyOTPRun(c.db, userID, c.val, {}).ret
                      /\ VerifyOTPRun(c.db, userID, c.val, {}).err = Nil

\* C24 witness: RevokeOTP just succeeded on a subject locked by 5 wrong
\* codes, and neither key of the subject is left
C24_Witness ==
    /\ last.op = "RevokeOTP"
    /\ last.user \in Users
    /\ last.err = Nil
    /\ last.pre = maxAttempts
    /\ otpKey(last.user) \notin DOMAIN db
    /\ otpAttemptsKey(last.user) \notin DOMAIN db

\* the subjects of the RevokeAllOTPs runs: the one otpHist follows and a
\* second one
OTPSubjects == Users \cup {2}

\* the OTP keys of the store, codes and attempts counters
OTPKeys(d) == RedisScan(d, <<redisStoreNameOTP>>)

\* RevokeAllOTPs with no failing store call; the record of the call keeps
\* the number of OTP keys the store held when it started
RevokeAllOTPsAlone ==
    LET r == RevokeAllOTPsRun(db, {}, {})
    IN  /\ db' = r.db
        /\ last' = Call("RevokeAllOTPs", 0, NoVal, Cardinality(OTPKeys(db)),
                        FALSE, NoVal, r.err)
        /\ otpHist' = [u \in Users |-> OTPDisturbed(otpHist[u])]
        /\ UNCHANGED <<prHist, rtHist>>

NextRevokeAll ==
    \/ \E userID \in OTPSubjects, rnd \in 0..MaxRand :
          CreateOTP(userID, rnd, {}) /\ Sequential
    \/ \E userID \in OTPSubjects :
          VerifyOTP(userID, WrongOTP, {}) /\ Sequential
    \/ RevokeAllOTPsAlone /\ Sequential
    \/ Tick /\ Sequential

SpecRevokeAll == Init /\ [][NextRevokeAll]_vars

\* C25: RevokeAllOTPs, run alone, returns no error and leaves no code key
\* and no attempts counter of any subject; after it every well-formed code
\* verifies (false, nil) for every subject, and every subject's next
\* CreateOTP succeeds with an attempts counter of 0.
C25_RevokeAllOTPs ==
    /\ (last.op = "RevokeAllOTPs") => (last.err = Nil /\ OTPKeys(db) = {})
    /\ LET r == RevokeAllOTPsRun(db, {}, {})
       IN  /\ r.err = Nil
           /\ OTPKeys(r.db) = {}
           /\ \A userID \in OTPSubjects :
                 /\ \A otp \in WellFormedOTPs :
                       Verdict(VerifyOTPRun(r.db, userID, otp, {})) = FalseNoError
                 /\ \A rnd \in 0..MaxRand :
                       LET c == CreateOTPRun(r.db, userID, rnd, {})
                       IN  /\ c.err = Nil
                           /\ getAttempts(c.db, userID, {}, 1) =
                                 [val |-> Itoa(0), err |-> Nil]

\* C25 witness: RevokeAllOTPs has just run on a store that held the code
\* and the attempts counter of two subjects, and no OTP key is left
C25_Witness ==
    /\ last.op = "RevokeAllOTPs"
    /\ last.pre = 2 * Cardinality(OTPSubjects)
    /\ OTPKeys(db) = {}

-----------------------------------------------------------------------------
(* The attempts counter *)

\* the attempts counter under interleaving: the VerifyOTP calls of one
\* caller run one store call at a time while codes are created and revoked
\* and keys expire between their store calls
Counting == {1}

NextCounter ==
    \/ \E userID \in Users, rnd \in 0..MaxRand :
          CreateOTP(userID, rnd, {}) /\ Sequential
    \/ \E userID \in Users :
          RevokeOTP(userID, {}) /\ Sequential
    \/ Tick /\ Sequential
    \/ \E p \in Counting :
          \/ \E userID \in Users, otp \in WellFormedOTPs :
                StartVerifyOTP(p, userID, otp)
          \/ VerifyOTPAttempts(p, FALSE)
          \/ VerifyOTPGet(p, FALSE)
          \/ VerifyOTPExists(p, FALSE)
          \/ VerifyOTPSetOne(p, FALSE)
          \/ VerifyOTPIncr(p, FALSE)
          \/ VerifyOTPDel(p, FALSE)
          \/ VerifyOTPDelAttempts(p, FALSE)
          \/ Return(p)

SpecCounter == Init /\ [][NextCounter]_vars

\* C26: in every reachable state an existing attempts counter of a subject
\* carries a TTL.
C26_Original ==
    \A userID \in Users :
        otpAttemptsKey(userID) \in DOMAIN db
            => ~NoExpiry(db[otpAttemptsKey(userID)])

\* failed tries counted: a code is created or not, then every caller makes
\* one VerifyOTP call, the calls running one store call at a time with every
\* store call succeeding; no key expires meanwhile
NextCounting ==
    \/ \E userID \in Users, rnd \in 0..MaxRand :
          /\ \A p \in Procs : procs[p].pc = "idle"
          /\ CreateOTP(userID, rnd, {})
          /\ Sequential
    \/ \E p \in Procs :
          \/ \E userID \in Users, otp \in WellFormedOTPs :
                StartVerifyOTP(p, userID, otp)
          \/ VerifyOTPAttempts(p, FALSE)
          \/ VerifyOTPGet(p, FALSE)
          \/ VerifyOTPExists(p, FALSE)
          \/ VerifyOTPSetOne(p, FALSE)
          \/ VerifyOTPIncr(p, FALSE)
          \/ VerifyOTPDel(p, FALSE)
          \/ VerifyOTPDelAttempts(p, FALSE)

SpecCounting == Init /\ [][NextCounting]_vars

\* the callers whose VerifyOTP(userID, ...) has returned (false, nil)
FailedVerifiers(userID) ==
    {p \in Procs : /\ At(p, "VerifyOTP", "done")
                   /\ procs[p].user = userID
                   /\ Verdict(procs[p]) = FalseNoError}

\* C27: once the VerifyOTP calls made since the code was created (or on a
\* subject without a code) have all returned, none of them true, the attempts
\* counter of the subject equals the number of calls that returned
\* (false, nil).
C27_Original ==
    \A userID \in Users :
        (/\ \A p \in Procs : procs[p].pc \in {"idle", "done"}
         /\ tally.trues = 0)
            => Attempts(db, userID) = Cardinality(FailedVerifiers(userID))

-----------------------------------------------------------------------------
(* The verdicts of VerifyOTP *)

\* the store as it is and, the counter being at the limit, the store after
\* one more try was counted by a concurrent call
Locked(userID) ==
    IF Attempts(db, userID) >= maxAttempts
    THEN {db, RedisIncr(db, otpAttemptsKey(userID))}
    ELSE {}

\* C28: when the attempts counter of s is 5 or more, VerifyOTP(s, code) with
\* any well-formed code, the stored one included, returns false with the
\* error "max attempts exceeded" after its first store call (no later call
\* can make it fail) and leaves the store, code key and counter with their
\* values and expiries, as it was.
C28_RateLimitedUnchanged ==
    \A userID \in Users, otp \in WellFormedOTPs :
        \A d \in Locked(userID), F \in SUBSET (AllFaults \ {1}) :
            VerifyOTPRun(d, userID, otp, F) =
                Res(d, FALSE, NoVal, "max attempts exceeded")

\* C28 witness: the code of a locked subject was just refused, and the code
\* key and the counter at 5 are still there
C28_Witness ==
    /\ last.op = "VerifyOTP"
    /\ last.user \in Users
    /\ last.err = "max attempts exceeded"
    /\ last.arg = otpHist[last.user].issued
    /\ otpKey(last.user) \in DOMAIN db
    /\ CheckHash(last.arg, db[otpKey(last.user)].val)
    /\ Attempts(db, last.user) = maxAttempts

\* VerifyOTP with store calls that fail: any of its four store calls
VerifyOTPFaults == SUBSET (1..4)

NextVerifyFaults ==
    \/ \E userID \in Users, rnd \in 0..MaxRand :
          CreateOTP(userID, rnd, {}) /\ Sequential
    \/ \E userID \in Users, otp \in WellFormedOTPs, F \in VerifyOTPFaults :
          VerifyOTP(userID, otp, F) /\ Sequential
    \/ Tick /\ Sequential

SpecVerifyFaults == Init /\ [][NextVerifyFaults]_vars

\* C29: a VerifyOTP(s, code) that returns true returns no error, matched the
\* stored hash, and leaves the store without the code key and without the
\* attempts counter of s, everything else untouched (nothing was counted);
\* it does not return true when its DEL of the code key (store call 3) or
\* of the counter (store call 4) fails.
C29_VerifiedConsumes ==
    /\ (last.op = "VerifyOTP" /\ last.ret)
          => /\ last.err = Nil
             /\ otpKey(last.user) \notin DOMAIN db
             /\ otpAttemptsKey(last.user) \notin DOMAIN db
    /\ \A userID \in Users, otp \in WellFormedOTPs, F \in VerifyOTPFaults :
          LET r == VerifyOTPRun(db, userID, otp, F)
          IN  /\ r.ret =>
                    /\ r.err = Nil
                    /\ otpKey(userID) \in DOMAIN db
                    /\ CheckHash(otp, db[otpKey(userID)].val)
                    /\ r.db = WithoutOTP(db, userID)
              /\ (3 \in F \/ 4 \in F) => ~r.ret

\* C29 witness: the code was verified after wrong tries had been counted,
\* and both keys are gone
C29_Witness ==
    /\ last.op = "VerifyOTP"
    /\ last.ret
    /\ last.pre >= 1
    /\ last.arg = otpHist[last.user].issued
    /\ otpKey(last.user) \notin DOMAIN db
    /\ otpAttemptsKey(last.user) \notin DOMAIN db

\* the store d with the attempts counter of the subject raised by one: set
\* to 1 with the configured TTL when there is none, its expiry kept otherwise
Counted(d, userID) ==
    LET key == otpAttemptsKey(userID)
    IN  IF key \in DOMAIN d
        THEN [d EXCEPT ![key] = Entry(Itoa(Attempts(d, userID) + 1), @.ttl)]
        ELSE [k \in DOMAIN d \cup {key} |->
                IF k = key THEN Entry(Itoa(1), OTPTTL) ELSE d[k]]

\* C30: for a subject with no stored code and fewer than 5 counted attempts,
\* VerifyOTP with any well-formed code returns (false, nil) and leaves the
\* store with the attempts counter raised by one, created at 1 with the
\* configured TTL when it was absent, and nothing else changed.
C30_NoCodeCounts ==
    \A userID \in Users, otp \in WellFormedOTPs :
        (otpKey(userID) \notin DOMAIN db /\ Attempts(db, userID) < maxAttempts)
            => VerifyOTPRun(db, userID, otp, {}) =
                   Res(Counted(db, userID), FALSE, NoVal, Nil)

\* C30 witness: a VerifyOTP on a subject without a code and without a
\* counter returned (false, nil), and the counter is now 1 with the
\* configured TTL
C30_Witness ==
    /\ last.op = "VerifyOTP"
    /\ last.user \in Users
    /\ Verdict(last) = FalseNoError
    /\ otpKey(last.user) \notin DOMAIN db
    /\ otpAttemptsKey(last.user) \in DOMAIN db
    /\ db[otpAttemptsKey(last.user)] = Entry(Itoa(1), OTPTTL)

-----------------------------------------------------------------------------
(* The expiry of the OTP keys *)

\* C31: in every reachable state where both the code key and the attempts
\* counter of a subject exist, they carry the same expiry.
C31_Original ==
    \A userID \in Users :
        (otpKey(userID) \in DOMAIN db /\ otpAttemptsKey(userID) \in DOMAIN db)
            => db[otpKey(userID)].ttl = db[otpAttemptsKey(userID)].ttl

\* C32: from every reachable state in which a subject is locked (5 or more
\* counted attempts), one TTL of time passing with no operation on the
\* subject removes the attempts counter and the code: the subject is back
\* to having neither key.
C32_Original ==
    \A userID \in Users :
        Attempts(db, userID) >= maxAttempts
            => LET later == RedisTickN(db, OTPTTL)
               IN  /\ otpAttemptsKey(userID) \notin DOMAIN later
                   /\ otpKey(userID) \notin DOMAIN later

-----------------------------------------------------------------------------
(* Store failures *)

\* the OTP service with store calls that fail: any of the three store calls
\* of CreateOTP, any of the four of VerifyOTP
NextBestEffort ==
    \/ \E userID \in Users, rnd \in 0..MaxRand, F \in CreateFaults :
          CreateOTP(userID, rnd, F) /\ Sequential
    \/ \E userID \in Users, otp \in WellFormedOTPs, F \in VerifyOTPFaults :
          VerifyOTP(userID, otp, F) /\ Sequential
    \/ Tick /\ Sequential

SpecBestEffort == Init /\ [][NextBestEffort]_vars

\* C33: a VerifyOTP that is not refused, whose two reads succeed and whose
\* code is wrong or absent, returns (false, nil) when the EXISTS or the
\* SET/INCR of its increment fails, the store left as it was; a CreateOTP
\* whose counter reset fails returns no code and the error "failed to reset
\* attempts counter" whether its rollback delete fails or not.
C33_SecondaryErrorsSwallowed ==
    \A userID \in Users :
        /\ \A otp \in WellFormedOTPs, F \in {{3}, {4}, {3, 4}} :
              (/\ ~RateLimited(Attempts(db, userID))
               /\ NotTheOTP(db, userID, otp))
                  => VerifyOTPRun(db, userID, otp, F) =
                        Res(db, FALSE, NoVal, Nil)
        /\ \A rnd \in 0..MaxRand :
              /\ Verdict(CreateOTPRun(db, userID, rnd, {2, 3})) =
                    [ret |-> FALSE, err |-> "failed to reset attempts counter"]
              /\ CreateOTPRun(db, userID, rnd, {2, 3}).val = NoVal
              /\ Verdict(CreateOTPRun(db, userID, rnd, {2})) =
                    Verdict(CreateOTPRun(db, userID, rnd, {2, 3}))

\* C33 witness: a stored code that no CreateOTP returned (its counter reset
\* and its rollback delete failed) was tried with a wrong code, the
\* increment failed, and the call returned (false, nil): there is still no
\* counter
C33_Witness ==
    /\ last.op = "VerifyOTP"
    /\ last.user \in Users
    /\ Verdict(last) = FalseNoError
    /\ otpHist[last.user].issued = NoVal
    /\ otpKey(last.user) \in DOMAIN db
    /\ ~CheckHash(last.arg, db[otpKey(last.user)].val)
    /\ db[otpKey(last.user)].ttl = OTPTTL
    /\ otpAttemptsKey(last.user) \notin DOMAIN db

\* none of the first n store calls of an operation fails, or one of them
OneFault(n) == {{}} \cup {{k} : k \in 1..n}

\* the three services on one store, any one store call of a call failing;
\* of the scans, the one of RevokeAllRefreshTokens is run
NextStoreFaults ==
    \/ \E userID \in Users, F \in OneFault(2) :
          CreateOTP(userID, 0, F) /\ Sequential
    \/ \E userID \in Users, otp \in {GenerateOTP(0), WrongOTP}, F \in OneFault(4) :
          VerifyOTP(userID, otp, F) /\ Sequential
    \/ \E userID \in Users, F \in OneFault(2) :
          RevokeOTP(userID, F) /\ Sequential
    \/ \E userID \in PRUsers, F \in OneFault(1) :
          CreatePasswordResetToken(userID, 0, F) /\ Sequential
    \/ \E userID \in PRUsers, F \in OneFault(1) :
          VerifyPasswordResetToken(userID, GenerateRandomString(passwordResetTokenMaxLength, 0), F)
             /\ Sequential
    \/ \E userID \in PRUsers, F \in OneFault(2) :
          RevokePasswordResetToken(userID, GenerateRandomString(passwordResetTokenMaxLength, 0), F)
             /\ Sequential
    \/ \E userID \in RTUsers, F \in OneFault(1) :
          CreateRefreshToken(userID, 0, F) /\ Sequential
    \/ \E userID \in RTUsers, F \in OneFault(1) :
          VerifyRefreshToken(userID, GenerateRandomString(refreshTokenMaxLength, 0), F)
             /\ Sequential
    \/ \E userID \in RTUsers, F \in OneFault(1) :
          RevokeRefreshToken(GenerateRandomString(refreshTokenMaxLength, 0), userID, F)
             /\ Sequential
    \/ \E F \in OneFault(2) :
          RevokeAllRefreshTokens(F, {}) /\ Sequential

SpecStoreFaults == Init /\ [][NextStoreFaults]_vars

\* a call that reports a failure: an error, no true, no token or code
Fails(r) == r.err # Nil /\ ~r.ret /\ r.val = NoVal

\* the OTP service's part: the store calls VerifyOTP depends on are the read
\* of the counter, then unless the subject is locked the read of the hash,
\* then for the matching code the two deletes
VerifyOTPPrimary(d, userID, otp) ==
    {1} \cup (IF RateLimited(Attempts(d, userID)) THEN {}
              ELSE {2} \cup (IF NotTheOTP(d, userID, otp) THEN {} ELSE {3, 4}))

OTPFailuresPropagated ==
    \A userID \in Users :
        /\ \A rnd \in 0..MaxRand, k \in {1, 2} :
              Fails(CreateOTPRun(db, userID, rnd, {k}))
        /\ \A otp \in WellFormedOTPs :
              \A k \in VerifyOTPPrimary(db, userID, otp) :
                  Fails(VerifyOTPRun(db, userID, otp, {k}))
        /\ \A k \in {1, 2} : RevokeOTPRun(db, userID, {k}, 1).err # Nil
        /\ \A k \in {1, 3} \cup (IF OTPKeys(db) = {} THEN {} ELSE {2}) :
              RevokeAllOTPsRun(db, {k}, {}).err # Nil

PasswordResetFailuresPropagated ==
    /\ \A userID \in PRUsers :
          /\ \A rnd \in 0..MaxRand :
                Fails(CreatePasswordResetTokenRun(db, userID, rnd, {1}))
          /\ \A token \in PRWellFormed :
                /\ Fails(VerifyPasswordResetTokenRun(db, userID, token, {1}))
                /\ Fails(RevokePasswordResetTokenRun(db, userID, token, {1}))
                /\ ~NotThePasswordResetToken(db, userID, token)
                      => Fails(RevokePasswordResetTokenRun(db, userID, token, {2}))
    /\ \A k \in {1} \cup (IF RedisScan(db, <<redisStoreNamePasswordReset>>) = {}
                          THEN {} ELSE {2}) :
          RevokeAllPasswordResetTokensRun(db, {k}, {}).err # Nil

RefreshFailuresPropagated ==
    /\ \A userID \in RTUsers :
          /\ \A rnd \in 0..MaxRand :
                Fails(CreateRefreshTokenRun(db, userID, rnd, {1}))
          /\ \A token \in RTWellFormed :
                /\ Fails(VerifyRefreshTokenRun(db, userID, token, {1}))
                /\ Fails(RevokeRefreshTokenRun(db, userID, token, {1}))
          /\ \A k \in {1} \cup (IF RedisScan(db, <<redisStoreNameRefreshToken,
                                                   Itoa(userID)>>) = {}
                                THEN {} ELSE {2}) :
                RevokeAllUserRefreshTokensRun(db, userID, {k}, {}).err # Nil
    /\ \A k \in {1} \cup (IF RedisScan(db, <<redisStoreNameRefreshToken>>) = {}
                          THEN {} ELSE {2}) :
          RevokeAllRefreshTokensRun(db, {k}, {}).err # Nil

\* C34: in every operation of the OTP, password-reset and refresh-token
\* services, the failure of a store call the operation depends on (its get,
\* set, delete or scan; not the increment of a failed VerifyOTP nor the
\* rollback delete of CreateOTP) makes the operation return an error, no
\* token or code, and not true.
C34_StoreFailuresPropagated ==
    /\ OTPFailuresPropagated
    /\ PasswordResetFailuresPropagated
    /\ RefreshFailuresPropagated

\* C34 witness: the GET of a VerifyRefreshToken failed on a token that is in
\* the store, and the call returned the store's error
C34_Witness ==
    /\ last.op = "VerifyRefreshToken"
    /\ last.user \in RTUsers
    /\ last.err = StoreErr
    /\ ~last.ret
    /\ refreshKey(last.user, last.arg) \in DOMAIN db

-----------------------------------------------------------------------------
(* RevokePasswordResetToken among concurrent callers *)

\* RevokePasswordResetToken, lines 217-227: the checks before the first
\* store call
StartRevokePasswordResetToken(p, userID, token) ==
    /\ procs[p].pc = "idle"
    /\ procs' = [procs EXCEPT ![p] =
                   IF userID = ""
                   THEN Proc("done", "RevokePasswordResetToken", userID, token,
                             FALSE, NoVal, "invalid user id")
                   ELSE IF IsIncomingTokenValid(token,
                                                passwordResetTokenMaxLength) # Nil
                   THEN Proc("done", "RevokePasswordResetToken", userID, token,
                             FALSE, NoVal,
                             IsIncomingTokenValid(token,
                                                  passwordResetTokenMaxLength))
                   ELSE Proc("get", "RevokePasswordResetToken", userID, token,
                             FALSE, NoVal, Nil)]
    /\ UNCHANGED <<db, last, otpHist, prHist, rtHist, tally, expired, clock, accessTokens>>

\* RevokePasswordResetToken: GET of the stored token and the comparison
RevokePasswordResetTokenGet(p, fail) ==
    /\ At(p, "RevokePasswordResetToken", "get")
    /\ LET g == RedisGet(db, passwordResetKey(procs[p].user), fail)
       IN  IF g.err = RedisNil
           THEN Done(p, FALSE, NoVal, "token not found or already revoked")
           ELSE IF g.err # Nil THEN Done(p, FALSE, NoVal, g.err)
           ELSE IF g.val # procs[p].arg
           THEN Done(p, FALSE, NoVal, "token mismatch")
           ELSE Goto(p, "del")
    /\ UNCHANGED <<db, last, otpHist, prHist, rtHist, tally, expired, clock, accessTokens>>

\* RevokePasswordResetToken: DEL of the key; the caller's record keeps in
\* val the token the DEL removed from the store (NoVal when it removed none)
RevokePasswordResetTokenDel(p, fail) ==
    /\ At(p, "RevokePasswordResetToken", "del")
    /\ LET key == passwordResetKey(procs[p].user)
       IN  IF fail THEN Done(p, FALSE, NoVal, StoreErr) /\ UNCHANGED db
           ELSE /\ db' = RedisDel(db, key)
                /\ Done(p, FALSE,
                        IF key \in DOMAIN db THEN db[key].val ELSE NoVal, Nil)
    /\ UNCHANGED <<last, otpHist, prHist, rtHist, tally, expired, clock, accessTokens>>

\* callers create and revoke the password-reset token of one subject, one
\* store call at a time, again and again
NextRevokeConcurrent ==
    \E p \in Procs :
        \/ \E userID \in PRUsers, rnd \in 0..MaxRand :
              StartCreatePasswordResetToken(p, userID, rnd)
        \/ CreatePasswordResetTokenSet(p, FALSE)
        \/ \E userID \in PRUsers, token \in PRGenerated :
              StartRevokePasswordResetToken(p, userID, token)
        \/ RevokePasswordResetTokenGet(p, FALSE)
        \/ RevokePasswordResetTokenDel(p, FALSE)
        \/ Return(p)

SpecRevokeConcurrent == Init /\ [][NextRevokeConcurrent]_vars

\* C35: under every interleaving of RevokePasswordResetToken(s, v) with
\* CreatePasswordResetToken(s), the token a revoke removes from the store
\* is the v it was given.
C35_Original ==
    \A p \in Procs :
        (At(p, "RevokePasswordResetToken", "done") /\ procs[p].val # NoVal)
            => procs[p].val = procs[p].arg

-----------------------------------------------------------------------------
(* The leeway of VerifyAccessToken *)

\* VerifyAccessToken of the issued token t now: accepted, with the claims of
\* its principal and no error, or reported expired
Accepted(t) ==
    LET r == VerifyAccessTokenRun(Config, t.token, clock)
    IN  r.some /\ r.err = Nil /\ r.claim.Subject = t.user.ID
ReportedExpired(t) ==
    VerifyAccessTokenRun(Config, t.token, clock).err = ErrTokenExpired

\* C36 as stated: an issued token is accepted at any time up to 5 seconds
\* after its expires-at, and reported expired only once more than 5 seconds
\* have passed since its expires-at.
C36_Original ==
    \A t \in accessTokens :
        /\ clock <= Expiry(t) + leeway => Accepted(t)
        /\ clock > Expiry(t) + leeway => ReportedExpired(t)

\* C36 amended: an issued token is accepted at any time less than 5 seconds
\* after its expires-at, and reported expired once 5 seconds or more have
\* passed since its expires-at.
C36_Leeway ==
    \A t \in accessTokens :
        /\ clock < Expiry(t) + leeway => Accepted(t)
        /\ clock >= Expiry(t) + leeway => ReportedExpired(t)

\* C36 witness: the issued token was verified 4 seconds after its expiry
\* and accepted
C36_Witness ==
    \E t \in accessTokens :
        /\ last.op = "VerifyAccessToken"
        /\ last.arg = t.token
        /\ clock = Expiry(t) + leeway - 1
        /\ last.ret
        /\ last.err = Nil
        /\ last.val.Subject = t.user.ID

-----------------------------------------------------------------------------
(* The configured expiry of CreateAccessToken *)

\* time.Now() when the clock is at 0, in seconds: late enough for a time 12
\* hours earlier to be a date
Epoch == 50000

\* the JWTExpiry values of the configuration: the one of the tests that
\* succeeds, none, a number without a unit, a word, a negative duration
GoodExpiry == <<"1", "2", "h">>
NegativeExpiry == <<"-", "1", "2", "h">>
BadExpiries == {<<>>, <<"1", "2">>, <<"s", "o", "o", "n">>}
JWTExpiries == {GoodExpiry, NegativeExpiry} \cup BadExpiries

WithExpiry(expiry) == [Config EXCEPT !.JWTExpiry = expiry]

\* CreateAccessToken of a service configured with the expiry; the record of
\* the call keeps the expiry in arg
CreateAccessTokenExpiring(expiry, user, n) ==
    LET r == CreateAccessTokenRun(WithExpiry(expiry), user, Epoch + clock, n)
    IN  /\ last' = Call("CreateAccessToken", 0, expiry, -1, FALSE, r.token, r.err)
        /\ accessTokens' = IF r.err = Nil
                           THEN {Issued(r.token, user, Epoch + clock)}
                           ELSE accessTokens
        /\ UNCHANGED <<db, otpHist, prHist, rtHist, procs, tally, expired, clock>>

VerifyAccessTokenLater(token) ==
    LET r == VerifyAccessTokenRun(Config, token, Epoch + clock)
    IN  /\ last' = Call("VerifyAccessToken", 0, token, -1, r.some, r.claim, r.err)
        /\ UNCHANGED <<db, otpHist, prHist, rtHist, procs, tally, expired, clock,
                       accessTokens>>

NextAccessConfig ==
    \/ \E expiry \in JWTExpiries, user \in AuthUsers, n \in 0..MaxRand :
          CreateAccessTokenExpiring(expiry, user, n)
    \/ \E t \in accessTokens : VerifyAccessTokenLater(t.token)
    \/ Elapse

SpecAccessConfig == Init /\ [][NextAccessConfig]_vars

\* C37: CreateAccessToken returns an error and no token when the configured
\* JWT expiry is empty, unparsable, or the negative duration "-12h".
C37_Original ==
    (last.op = "CreateAccessToken" /\ last.arg \in BadExpiries \cup {NegativeExpiry})
        => last.err # Nil /\ last.val = <<>>

-----------------------------------------------------------------------------
(* Subjects side by side *)

\* two subjects of each service
PRSubjects == PRUsers \cup {"u2"}

\* one code and one token value stand for the values issued
ACode == GenerateOTP(0)
APasswordResetToken == GenerateRandomString(passwordResetTokenMaxLength, 0)
ARefreshToken == GenerateRandomString(refreshTokenMaxLength, 0)

\* each service creates for, and verifies for, either of its two subjects
NextIsolation ==
    \/ \E userID \in OTPSubjects :
          CreateOTP(userID, 0, {}) /\ Sequential
    \/ \E userID \in OTPSubjects :
          VerifyOTP(userID, ACode, {}) /\ Sequential
    \/ \E userID \in PRSubjects :
          CreatePasswordResetToken(userID, 0, {}) /\ Sequential
    \/ \E userID \in PRSubjects :
          VerifyPasswordResetToken(userID, APasswordResetToken, {}) /\ Sequential
    \/ \E userID \in RTSubjects :
          CreateRefreshToken(userID, 0, {}) /\ Sequential
    \/ \E userID \in RTSubjects :
          VerifyRefreshToken(userID, ARefreshToken, {}) /\ Sequential

SpecIsolation == Init /\ [][NextIsolation]_vars

\* the characters of the names the keys are formatted from
Chars(name) ==
    CASE name = "otp" -> <<"o", "t", "p">>
      [] name = "attempts" -> <<"a", "t", "t", "e", "m", "p", "t", "s">>
      [] name = "password_reset" ->
            <<"p", "a", "s", "s", "w", "o", "r", "d", "_", "r", "e", "s", "e", "t">>
      [] name = "refresh" -> <<"r", "e", "f", "r", "e", "s", "h">>
      [] name = "u1" -> <<"u", "1">>
      [] name = "u2" -> <<"u", "2">>

\* the key strings as fmt.Sprintf writes them
otpKeyString(userID) == Chars(redisStoreNameOTP) \o <<":">> \o Itoa(userID)
otpAttemptsKeyString(userID) ==
    Chars(redisStoreNameOTPAttempts[1]) \o <<":">>
        \o Chars(redisStoreNameOTPAttempts[2]) \o <<":">> \o Itoa(userID)
passwordResetKeyString(userID) ==
    Chars(redisStoreNamePasswordReset) \o <<":">> \o Chars(userID)
refreshKeyString(userID, token) ==
    Chars(redisStoreNameRefreshToken) \o <<":">> \o Itoa(userID)
        \o <<":">> \o token
\* the SCAN pattern of RevokeAllUserRefreshTokens, without its trailing star
refreshPatternString(userID) ==
    Chars(redisStoreNameRefreshToken) \o <<":">> \o Itoa(userID) \o <<":">>

\* subject ids one of which is a prefix of another, and tokens with separators
KeyIDs == {1, 2, 11, 12, 21, 111}
KeyTokens == {<<"a">>, <<"1">>, <<"1", ":", "a">>, <<":", "a">>, <<"1", ":">>}

\* every key a service can address, with the subject it belongs to
KeyNames ==
    {[family |-> "otp", subject |-> Itoa(i), token |-> <<>>,
      name |-> otpKeyString(i)] : i \in KeyIDs}
    \cup {[family |-> "otp:attempts", subject |-> Itoa(i), token |-> <<>>,
           name |-> otpAttemptsKeyString(i)] : i \in KeyIDs}
    \cup {[family |-> "password_reset", subject |-> Chars(u), token |-> <<>>,
           name |-> passwordResetKeyString(u)] : u \in PRSubjects}
    \cup {[family |-> "refresh", subject |-> Itoa(i), token |-> t,
           name |-> refreshKeyString(i, t)] : i \in KeyIDs, t \in KeyTokens}

StringHasPrefix(s, prefix) ==
    Len(s) >= Len(prefix) /\ SubSeq(s, 1, Len(prefix)) = prefix

\* no two keys have the same string, and a subject's pattern matches only
\* that subject's refresh keys
KeySchemesDisjoint ==
    /\ \A k1, k2 \in KeyNames : k1.name = k2.name => k1 = k2
    /\ \A i \in KeyIDs : \A k \in KeyNames :
          StringHasPrefix(k.name, refreshPatternString(i))
              <=> (k.family = "refresh" /\ k.subject = Itoa(i))

\* what the store holds for one subject of a service
OTPOf(d, userID) ==
    [k \in {otpKey(userID), otpAttemptsKey(userID)} \cap DOMAIN d |-> d[k]]
PasswordResetOf(d, userID) ==
    [k \in {passwordResetKey(userID)} \cap DOMAIN d |-> d[k]]
RefreshOf(d, userID) ==
    [k \in RedisScan(d, <<redisStoreNameRefreshToken, Itoa(userID)>>) |-> d[k]]

\* the stores the calls for one subject can leave behind
OTPCallsFor(d, a) ==
    {CreateOTPRun(d, a, rnd, F).db : rnd \in 0..MaxRand, F \in CreateFaults}
    \cup {VerifyOTPRun(d, a, otp, F).db :
             otp \in WellFormedOTPs, F \in VerifyOTPFaults}
    \cup {RevokeOTPRun(d, a, F, 1).db : F \in OneFault(1)}
PasswordResetCallsFor(d, a) ==
    {CreatePasswordResetTokenRun(d, a, rnd, F).db :
        rnd \in 0..MaxRand, F \in OneFault(1)}
    \cup {VerifyPasswordResetTokenRun(d, a, APasswordResetToken, F).db :
             F \in OneFault(1)}
    \cup {RevokePasswordResetTokenRun(d, a, APasswordResetToken, F).db :
             F \in OneFault(2)}
RefreshCallsFor(d, a) ==
    {CreateRefreshTokenRun(d, a, rnd, F).db :
        rnd \in 0..MaxRand, F \in OneFault(1)}
    \cup {VerifyRefreshTokenRun(d, a, ARefreshToken, F).db : F \in OneFault(1)}
    \cup {RevokeRefreshTokenRun(d, a, ARefreshToken, F).db : F \in OneFault(1)}
    \cup {RevokeAllUserRefreshTokensRun(d, a, {}, part).db : part \in {0}}

\* a call for subject a leaves what the store holds for subject b as it was
OtherSubjectsUntouched ==
    /\ \A a, b \in OTPSubjects : a # b =>
          \A d \in OTPCallsFor(db, a) : OTPOf(d, b) = OTPOf(db, b)
    /\ \A a, b \in PRSubjects : a # b =>
          \A d \in PasswordResetCallsFor(db, a) :
              PasswordResetOf(d, b) = PasswordResetOf(db, b)
    /\ \A a, b \in RTSubjects : a # b =>
          \A d \in RefreshCallsFor(db, a) : RefreshOf(d, b) = RefreshOf(db, b)

\* the values the store holds for a subject
HoldsOTP(userID, otp) ==
    otpKey(userID) \in DOMAIN db /\ CheckHash(otp, db[otpKey(userID)].val)
HoldsPasswordResetToken(userID, token) ==
    passwordResetKey(userID) \in DOMAIN db
        /\ db[passwordResetKey(userID)].val = token
HoldsRefreshToken(userID, token) == refreshKey(userID, token) \in DOMAIN db

\* C38 as stated: subject isolation, and a value issued to subject a never
\* verifies true for a different subject b
C38_Original ==
    /\ KeySchemesDisjoint
    /\ OtherSubjectsUntouched
    /\ \A a, b \in OTPSubjects : \A otp \in GeneratedOTPs :
          (a # b /\ HoldsOTP(a, otp)) => ~VerifyOTPRun(db, b, otp, {}).ret
    /\ \A a, b \in PRSubjects :
          (a # b /\ HoldsPasswordResetToken(a, APasswordResetToken))
              => ~VerifyPasswordResetTokenRun(db, b, APasswordResetToken, {}).ret
    /\ \A a, b \in RTSubjects :
          (a # b /\ HoldsRefreshToken(a, ARefreshToken))
              => ~VerifyRefreshTokenRun(db, b, ARefreshToken, {}).ret

\* C38, amended: a create, verify or revoke for subject a never creates,
\* changes or deletes the stored credential or the attempts counter of a
\* different subject b, the key schemes never collide across subjects or
\* across the otp and otp:attempts families, and a value issued to a
\* verifies true for b only when the credential stored for b itself is that
\* same value
C38_SubjectIsolation ==
    /\ KeySchemesDisjoint
    /\ OtherSubjectsUntouched
    /\ \A a, b \in OTPSubjects : \A otp \in GeneratedOTPs :
          (a # b /\ HoldsOTP(a, otp) /\ VerifyOTPRun(db, b, otp, {}).ret)
              => HoldsOTP(b, otp)
    /\ \A a, b \in PRSubjects :
          (a # b /\ HoldsPasswordResetToken(a, APasswordResetToken)
                 /\ VerifyPasswordResetTokenRun(db, b, APasswordResetToken, {}).ret)
              => HoldsPasswordResetToken(b, APasswordResetToken)
    /\ \A a, b \in RTSubjects :
          (a # b /\ HoldsRefreshToken(a, ARefreshToken)
                 /\ VerifyRefreshTokenRun(db, b, ARefreshToken, {}).ret)
              => HoldsRefreshToken(b, ARefreshToken)

\* C38 witness: subject 2 has just verified with the code held by subject 1
\* while holding none itself; it was refused and subject 1 keeps its code
\* and its counter
C38_Witness ==
    /\ last.op = "VerifyOTP" /\ last.user = 2 /\ last.arg = ACode
    /\ ~last.ret
    /\ HoldsOTP(1, ACode)
    /\ otpAttemptsKey(1) \in DOMAIN db
    /\ otpKey(2) \notin DOMAIN db
    /\ otpAttemptsKey(2) \in DOMAIN db

-----------------------------------------------------------------------------
(* The rollback of CreateOTP among concurrent callers *)

\* the callers whose CreateOTP for the subject returned a code
ReturnedCode(userID) ==
    {p \in Procs : /\ At(p, "CreateOTP", "done")
                   /\ procs[p].user = userID
                   /\ procs[p].err = Nil}

NoCallInFlight == \A p \in Procs : procs[p].pc \in {"idle", "done"}

\* C39 as stated: once every concurrent CreateOTP call of a subject has
\* returned, a code returned by a successful call still verifies true; the
\* rollback of a failing call has removed no hash but its own (where one
\* call alone returned a code, that code is the last one returned)
C39_Original ==
    \A userID \in Users :
        (NoCallInFlight /\ ReturnedCode(userID) # {})
            => \E p \in ReturnedCode(userID) :
                  VerifyOTPRun(db, userID, procs[p].val, {}).ret

====
